---- MODULE Spec2Model ----
(***************************************************************************)
(* A model of the fleet-net protocol and permission core:                  *)
(*   - Connection::write_message / read_message   (length-prefixed frames) *)
(*   - FramedMessage::new / validate_and_decode   (HMAC envelope)          *)
(*   - AudioPacket::to_bytes / from_bytes         (16-byte header)         *)
(*   - Channel::compute_user_permissions          (permission resolution)  *)
(* Each part has its own specification (SpecConn, SpecFramed, SpecPacket,  *)
(* SpecPerm) over the shared variables; the parts that a specification     *)
(* does not exercise stay in their idle state.                             *)
(***************************************************************************)
EXTENDS Integers, Sequences, FiniteSets, TLC

VARIABLES
    c_stream,    \* bytes in flight from the writing end to the reading end
    c_closed,    \* the writing end has shut the stream down
    w_pc,        \* write_message: "idle" | "prefix" | "payload" (or their "rest")
    w_buf,       \* bytes the pending write_all has not yet handed to the stream
    w_next,      \* the serialized payload waiting for the second write_all
    w_log,       \* one entry per frame the writing end started
    r_pc,        \* read_message: "idle" | "payload" | "desync"
    r_len,       \* the decoded length prefix of the frame being read
    r_results,   \* the results read_message returned, in call order
    a_pc,        \* audio packet: "start" | "wire" | "altered" | "decoded"
    a_pkt,       \* the AudioPacket handed to to_bytes
    a_src,       \* where a_bytes come from: "to_bytes" | "network" | "altered"
    a_bytes,     \* the datagram
    a_out,       \* what from_bytes returned
    f_pc,        \* envelope: "start" | "built" | "tampered" | "decoded"
    f_msg,       \* the message FramedMessage::new was given
    f_key,       \* the key FramedMessage::new was given
    f_env,       \* the FramedMessage {payload, hmac}
    f_how,       \* what happened to the envelope since it was built
    f_vkey,      \* the key validate_and_decode was given
    f_out,       \* what validate_and_decode returned
    p_pc,        \* permissions: "start" | "running" | "done" | "stack overflow"
    p_store,     \* the channels get_parent_channel finds, by id
    p_roles,     \* user_roles
    p_stack,     \* the active compute_user_permissions calls, outermost first
    p_result,    \* what the outermost call returned
    h_pc,        \* packet HMAC: "start" | "held" | "validated"
    h_hdr,       \* the PacketHeader validate_hmac is called on
    h_audio,     \* the audio the header was sealed over (Unset if it was not)
    h_key,       \* the key the header was sealed under (Unset if it was not)
    h_vkey,      \* the key validate_hmac was given
    h_vaudio,    \* the audio_data validate_hmac was given
    h_out,       \* what validate_hmac returned
    s_perms,     \* PermissionSet.permissions
    s_added,     \* the bits add or from_bits were ever given
    s_query,     \* the last has / has_all / has_any call and its answer
    g_pc,        \* hmac: "start" | "tagged" | "altered" | "validated"
    g_key,       \* the key generate_hmac was given
    g_data,      \* the data generate_hmac was given
    g_orig,      \* the tag generate_hmac returned
    g_again,     \* the tag a second generate_hmac call on the same inputs returned
    g_tag,       \* the tag handed to validate_hmac
    g_how,       \* what happened to the tag since it was generated
    g_vkey,      \* the key validate_hmac was given
    g_vdata,     \* the data validate_hmac was given
    g_out,       \* what validate_hmac returned
    k_pc,        \* keys: "start" | "session" | "derived"
    k_session,   \* the key generate_session_key returned
    k_again,     \* the key a second call with the same arguments returned
    k_base,      \* the base key derive_protocol_keys was given
    k_keys,      \* the ProtocolKeys derive_protocol_keys returned
    t_pc,        \* tls: "start" | "try pkcs8" | "try rsa" | "try ec" | "key loaded" | "done"
    t_cert,      \* the file at cert_path
    t_key,       \* the file at key_path
    t_certs,     \* what load_certs returned
    t_tried,     \* the key formats load_private_key has parsed the file for
    t_keyder,    \* the key load_private_key returned
    t_result,    \* what new_server returned
    v_pc,        \* version: "start" | "ready"
    v_new,       \* the list Version::new was given
    v_self,      \* the Version: current, supported_versions
    v_call,      \* the last negotiate call: client list, current before, result
    sv_pc,       \* server: "none" | "new"
    sv_tls,      \* tls_acceptor is Some
    sv_start,    \* "never" | "failed" | "ok": what start returned last
    sv_listener, \* listener is Some
    sv_run,      \* "idle" | "serving" | "returned": the task that called run
    sv_ac,       \* "idle" | "accepting" | "handling": the task that called accept_connection
    sv_conn,     \* per client: state of its connection and who accepted it
    sv_fate,     \* per client: how its side of the connection behaves
    sv_sent,     \* per client: ServerInfo messages written to its stream
    sv_last,     \* what accept_connection or run returned last
    n_pc,        \* channel: "start" | "validated"
    n_channel,   \* the Channel validate is called on
    n_result,    \* what validate returned
    d_role,      \* role: the Role; its discord_role_ids
    d_last       \* the last call on it: op, role_id, the ids before, calls so far

connVars == <<c_stream, c_closed, w_pc, w_buf, w_next, w_log, r_pc, r_len, r_results>>
packetVars == <<a_pc, a_pkt, a_src, a_bytes, a_out>>
framedVars == <<f_pc, f_msg, f_key, f_env, f_how, f_vkey, f_out>>

permVars == <<p_pc, p_store, p_roles, p_stack, p_result>>

packetHmacVars == <<h_pc, h_hdr, h_audio, h_key, h_vkey, h_vaudio, h_out>>

permSetVars == <<s_perms, s_added, s_query>>

hmacVars == <<g_pc, g_key, g_data, g_orig, g_again, g_tag, g_how, g_vkey, g_vdata, g_out>>

keyVars == <<k_pc, k_session, k_again, k_base, k_keys>>

tlsVars == <<t_pc, t_cert, t_key, t_certs, t_tried, t_keyder, t_result>>

versionVars == <<v_pc, v_new, v_self, v_call>>

serverVars == <<sv_pc, sv_tls, sv_start, sv_listener, sv_run, sv_ac, sv_conn, sv_fate, sv_sent, sv_last>>

channelVars == <<n_pc, n_channel, n_result>>

roleVars == <<d_role, d_last>>

vars ==
    <<connVars,
      packetVars,
      framedVars,
      permVars,
      packetHmacVars,
      permSetVars,
      hmacVars,
      keyVars,
      tlsVars,
      versionVars,
      serverVars,
      channelVars,
      roleVars>>

-----------------------------------------------------------------------------
(* Byte counts.  TLC's integers are 32-bit signed, a usize is not: a byte   *)
(* count is kept as two base-2^16 limbs, value = hi * 2^16 + lo.            *)

Limb == 256 * 256

Sz(n) == [hi |-> n \div Limb, lo |-> n % Limb]

SzZero == Sz(0)

SzAdd(a, b) ==
    LET s == a.lo + b.lo
    IN  [hi |-> a.hi + b.hi + (s \div Limb), lo |-> s % Limb]

SzLeq(a, b) == a.hi < b.hi \/ (a.hi = b.hi /\ a.lo <= b.lo)

\* a - b for b <= a
SzSub(a, b) ==
    IF a.lo >= b.lo
    THEN [hi |-> a.hi - b.hi, lo |-> a.lo - b.lo]
    ELSE [hi |-> a.hi - b.hi - 1, lo |-> a.lo + Limb - b.lo]

\* whether a byte count is below 2^32
FitsU32(a) == a.hi < Limb

\* `json.len() as u32`: the cast keeps the low 32 bits
AsU32(a) == [hi |-> a.hi % Limb, lo |-> a.lo]

\* u32::to_be_bytes / u32::from_be_bytes
ToBeBytesMut(u) == << u.lo % 256, u.lo \div 256, u.hi % 256, u.hi \div 256 >>
ToBeBytes(u) == << u.hi \div 256, u.hi % 256, u.lo \div 256, u.lo % 256 >>

FromBeBytesMut(b) == [hi |-> b[4] * 256 + b[3], lo |-> b[2] * 256 + b[1]]
FromBeBytes(b) == [hi |-> b[1] * 256 + b[2], lo |-> b[3] * 256 + b[4]]

\* a value the part of the model that owns a variable has not set
Unset == "unset"

-----------------------------------------------------------------------------
(* ControlMessage and its JSON text (serde_json, #[serde(tag = "type",      *)
(* rename_all = "snake_case")]).  The text is kept token by token; every    *)
(* token knows how many bytes it takes on the wire.  A String value is a    *)
(* record [s |-> text, n |-> byte count].                                   *)

Str(x) == [s |-> x, n |-> Sz(Len(x))]

None == [some |-> FALSE]
Some(x) == [some |-> TRUE, v |-> x]

\* the variants of ControlMessage with their fields, in declaration order
VariantFields(v) ==
    CASE v = "Authenticate" -> << <<"token", "String">>, <<"client_version", "String">> >>
      [] v = "AuthResponse" -> << <<"success", "bool">>, <<"user_id", "Option<u16>">>,
                                  <<"error", "Option<String>">> >>
      [] v = "JoinChannel" -> << <<"channel_id", "u16">> >>
      [] v = "LeaveChannel" -> << <<"channel_id", "u16">> >>
      [] v = "ChannelJoined" -> << <<"channel_id", "u16">>, <<"users", "Vec<u16>">> >>
      [] v = "ChannelLeft" -> << <<"channel_id", "u16">> >>
      [] v = "UserJoined" -> << <<"user_id", "u16">>, <<"username", "String">>,
                                <<"channel_id", "Option<u16>">> >>
      [] v = "UserLeft" -> << <<"user_id", "u16">> >>
      [] v = "UserChangedChannel" -> << <<"user_id", "u16">>, <<"from_channel", "Option<u16>">>,
                                        <<"to_channel", "Option<u16>">> >>
      [] v = "ServerInfo" -> << <<"name", "String">>, <<"version", "String">>,
                                <<"user_count", "u32">>, <<"channel_count", "u32">> >>
      [] v = "Error" -> << <<"code", "String">>, <<"message", "String">> >>
      [] v = "Ping" -> << >>
      [] v = "Pong" -> << >>

Variants ==
    {"Authenticate", "AuthResponse", "JoinChannel", "LeaveChannel", "ChannelJoined",
     "ChannelLeft", "UserJoined", "UserLeft", "UserChangedChannel", "ServerInfo",
     "Error", "Ping", "Pong"}

\* rename_all = "snake_case"
SnakeCase(v) ==
    CASE v = "Authenticate" -> "authenticate"
      [] v = "AuthResponse" -> "auth_response"
      [] v = "JoinChannel" -> "join_channel"
      [] v = "LeaveChannel" -> "leave_channel"
      [] v = "ChannelJoined" -> "channel_joined"
      [] v = "ChannelLeft" -> "channel_left"
      [] v = "UserJoined" -> "user_joined"
      [] v = "UserLeft" -> "user_left"
      [] v = "UserChangedChannel" -> "user_changed_channel"
      [] v = "ServerInfo" -> "server_info"
      [] v = "Error" -> "error"
      [] v = "Ping" -> "ping"
      [] v = "Pong" -> "pong"

U16Max == 65535

LBrace == [t |-> "{"]
RBrace == [t |-> "}"]
Comma == [t |-> ","]
Key(name) == [t |-> "key", key |-> name]
StrTok(x) == [t |-> "str", str |-> x]
NumTok(n) == [t |-> "num", num |-> n]
BoolTok(b) == [t |-> "bool", bool |-> b]
ArrTok(xs) == [t |-> "arr", arr |-> xs]
NullTok == [t |-> "null"]
\* a byte of a length prefix, a run of bytes that is no JSON, and a part of
\* a token that a read has cut in two
Byte(b) == [t |-> "byte", byte |-> b]
Junk(n) == [t |-> "junk", n |-> n]
Frag(n) == [t |-> "frag", n |-> n]

IsKey(tok, name) == tok.t = "key" /\ tok.key = name

IsOptionKind(kind) == kind \in {"Option<u16>", "Option<String>"}
InnerKind(kind) == IF kind = "Option<u16>" THEN "u16" ELSE "String"

\* Serialize for one field value
ValueTok(kind, x) ==
    LET plain(k, y) ==
            CASE k = "String" -> StrTok(y)
              [] k = "bool" -> BoolTok(y)
              [] k = "Vec<u16>" -> ArrTok(y)
              [] OTHER -> NumTok(y)
    IN  IF IsOptionKind(kind)
        THEN IF x.some THEN plain(InnerKind(kind), x.v) ELSE NullTok
        ELSE plain(kind, x)

\* Deserialize for one field value: [ok |-> BOOLEAN, v |-> value]
TokValue(kind, tok) ==
    LET bad == [ok |-> FALSE]
        plain(k) ==
            CASE k = "String" -> IF tok.t = "str" THEN [ok |-> TRUE, v |-> tok.str] ELSE bad
              [] k = "bool" -> IF tok.t = "bool" THEN [ok |-> TRUE, v |-> tok.bool] ELSE bad
              [] k = "Vec<u16>" ->
                    IF tok.t = "arr" /\ \A i \in DOMAIN tok.arr : tok.arr[i] <= U16Max
                    THEN [ok |-> TRUE, v |-> tok.arr] ELSE bad
              [] k = "u16" ->
                    IF tok.t = "num" /\ tok.num <= U16Max THEN [ok |-> TRUE, v |-> tok.num] ELSE bad
              [] OTHER -> IF tok.t = "num" THEN [ok |-> TRUE, v |-> tok.num] ELSE bad
    IN  IF IsOptionKind(kind)
        THEN IF tok.t = "null" THEN [ok |-> TRUE, v |-> None]
             ELSE LET r == plain(InnerKind(kind))
                  IN  IF r.ok THEN [ok |-> TRUE, v |-> Some(r.v)] ELSE bad
        ELSE plain(kind)

\* serde_json::to_string / to_vec of a ControlMessage
Serialize(m) ==
    LET fs == VariantFields(m.variant)
        field(i) ==
            LET f == fs[(i + 2) \div 3]
            IN  CASE i % 3 = 1 -> Comma
                  [] i % 3 = 2 -> Key(f[1])
                  [] OTHER -> ValueTok(f[2], m[f[1]])
    IN  <<LBrace, Key("type"), StrTok(Str(SnakeCase(m.variant)))>>
            \o [i \in 1..(3 * Len(fs)) |-> field(i)]
            \o <<RBrace>>

\* serde_json::from_slice::<ControlMessage>: [ok |-> BOOLEAN, msg |-> message]
Deserialize(toks) ==
    LET bad == [ok |-> FALSE]
    IN  IF Len(toks) < 4 \/ toks[1].t # "{" \/ ~IsKey(toks[2], "type")
           \/ toks[3].t # "str" \/ toks[Len(toks)].t # "}"
        THEN bad
        ELSE
        LET named == {v \in Variants : Str(SnakeCase(v)) = toks[3].str}
        IN  IF named = {} THEN bad
            ELSE
            LET variant == CHOOSE v \in named : TRUE
                fs == VariantFields(variant)
                val(i) == TokValue(fs[i][2], toks[3 + 3 * i])
                shaped ==
                    /\ Len(toks) = 4 + 3 * Len(fs)
                    /\ \A i \in DOMAIN fs :
                          /\ toks[1 + 3 * i].t = ","
                          /\ IsKey(toks[2 + 3 * i], fs[i][1])
                          /\ val(i).ok
                names == {fs[i][1] : i \in DOMAIN fs}
                at(n) == CHOOSE i \in DOMAIN fs : fs[i][1] = n
            IN  IF ~shaped THEN bad
                ELSE [ok |-> TRUE,
                      msg |-> [n \in names \cup {"variant"} |->
                                   IF n = "variant" THEN variant ELSE val(at(n)).v]]

\* decimal digits of a number below 2^31
Digits(n) ==
    CASE n < 10 -> 1 [] n < 100 -> 2 [] n < 1000 -> 3 [] n < 10000 -> 4
      [] n < 100000 -> 5 [] n < 1000000 -> 6 [] n < 10000000 -> 7
      [] n < 100000000 -> 8 [] n < 1000000000 -> 9 [] OTHER -> 10

RECURSIVE ArrBytes(_)
ArrBytes(xs) ==
    IF xs = <<>> THEN 0
    ELSE Digits(Head(xs)) + (IF Len(xs) > 1 THEN 1 ELSE 0) + ArrBytes(Tail(xs))

\* the bytes a token takes on the wire
TokSz(tok) ==
    CASE tok.t \in {"{", "}", ","} -> Sz(1)
      [] tok.t = "key" -> Sz(Len(tok.key) + 3)
      [] tok.t = "str" -> SzAdd(tok.str.n, Sz(2))
      [] tok.t = "num" -> Sz(Digits(tok.num))
      [] tok.t = "bool" -> IF tok.bool THEN Sz(4) ELSE Sz(5)
      [] tok.t = "arr" -> Sz(2 + ArrBytes(tok.arr))
      [] tok.t = "null" -> Sz(4)
      [] tok.t = "byte" -> Sz(1)
      [] OTHER -> tok.n

RECURSIVE SeqSz(_)
SeqSz(toks) == IF toks = <<>> THEN SzZero ELSE SzAdd(TokSz(Head(toks)), SeqSz(Tail(toks)))

\* read_exact of n bytes from the front of the stream s:
\* avail says whether s holds n bytes; a token the n bytes end in is cut
RECURSIVE TakeBytes(_, _)
TakeBytes(s, n) ==
    IF n = SzZero THEN [avail |-> TRUE, taken |-> <<>>, rest |-> s]
    ELSE IF s = <<>> THEN [avail |-> FALSE, taken |-> <<>>, rest |-> <<>>]
    ELSE LET u == Head(s)
             usz == TokSz(u)
         IN  IF SzLeq(usz, n)
             THEN LET r == TakeBytes(Tail(s), SzSub(n, usz))
                  IN  [avail |-> r.avail, taken |-> <<u>> \o r.taken, rest |-> r.rest]
             ELSE [avail |-> TRUE, taken |-> <<Frag(n)>>,
                   rest |-> <<Frag(SzSub(usz, n))>> \o Tail(s)]

-----------------------------------------------------------------------------
(* Connection: the inputs.                                                  *)

MaxWrites == 2
MaxReads == 3

\* a String of 2^32 bytes
OversizeText == [s |-> "aaaa...", n |-> [hi |-> Limb, lo |-> 0]]

MessageList ==
    << [variant |-> "Ping"],
       [variant |-> "JoinChannel", channel_id |-> 42],
       [variant |-> "ServerInfo", name |-> Str("Fleet Net Server"), version |-> Str("0.1.0"),
        user_count |-> 0, channel_count |-> 0],
       [variant |-> "AuthResponse", success |-> FALSE, user_id |-> None,
        error |-> Some(Str("denied"))],
       [variant |-> "ChannelJoined", channel_id |-> U16Max, users |-> <<1001, 7>>],
       [variant |-> "Error", code |-> Str("E1"), message |-> OversizeText] >>

\* what a peer that is no Connection may put on the wire: a well-framed
\* payload that is no JSON, a well-framed JSON object of no known variant,
\* and a frame that declares 15 bytes and carries 8
RawFrameList ==
    << <<Byte(0), Byte(0), Byte(0), Byte(5), Junk(Sz(5))>>,
       <<Byte(0), Byte(0), Byte(0), Byte(15), LBrace, Key("type"), StrTok(Str("nope")), RBrace>>,
       <<Byte(0), Byte(0), Byte(0), Byte(15), LBrace, Key("type")>> >>

-----------------------------------------------------------------------------
(* Connection: write_message, read_message and the peer.                    *)

ConnIdle ==
    /\ c_stream = <<>>
    /\ c_closed = FALSE
    /\ w_pc = "idle"
    /\ w_buf = <<>>
    /\ w_next = <<>>
    /\ w_log = <<>>
    /\ r_pc = "idle"
    /\ r_len = SzZero
    /\ r_results = <<>>

\* write_message up to its first await: serialize, compute the prefix
WriteMessage(m) ==
    /\ w_pc = "idle"
    /\ ~c_closed
    /\ Len(w_log) < MaxWrites
    /\ LET json == Serialize(m)
           length == AsU32(SeqSz(json))
           prefix == ToBeBytes(length)
       IN  /\ w_buf' = [i \in 1..4 |-> Byte(prefix[i])]
           /\ w_next' = json
           /\ w_log' = Append(w_log, [kind |-> "msg", m |-> m, sent |-> 0,
                                      total |-> 4 + Len(json)])
    /\ w_pc' = "prefix"
    /\ UNCHANGED <<c_stream, c_closed, r_pc, r_len, r_results>>

\* the pending write_all hands bytes to the stream: all that is left, or
\* (a partial write) the first unit of its buffer; the stream takes a
\* write_all in at most two pieces
WriteSome(k) ==
    /\ w_pc \in {"prefix", "prefix rest", "payload", "payload rest"}
    /\ k \in {1, Len(w_buf)}
    /\ k < Len(w_buf) => w_pc \in {"prefix", "payload"}
    /\ c_stream' = c_stream \o SubSeq(w_buf, 1, k)
    /\ w_log' = [w_log EXCEPT ![Len(w_log)].sent = @ + k]
    /\ IF k < Len(w_buf)
       THEN /\ w_buf' = SubSeq(w_buf, k + 1, Len(w_buf))
            /\ w_pc' = IF w_pc = "prefix" THEN "prefix rest" ELSE "payload rest"
            /\ UNCHANGED w_next
       ELSE IF w_pc \in {"prefix", "prefix rest"}
       THEN /\ w_pc' = "payload"
            /\ w_buf' = w_next
            /\ w_next' = <<>>
       ELSE /\ w_pc' = "idle"
            /\ w_buf' = <<>>
            /\ UNCHANGED w_next
    /\ UNCHANGED <<c_closed, r_pc, r_len, r_results>>

\* the caller drops the write_message future at an await
CancelWrite ==
    /\ w_pc # "idle"
    /\ w_pc' = "idle"
    /\ w_buf' = <<>>
    /\ w_next' = <<>>
    /\ w_log' = [w_log EXCEPT ![Len(w_log)].kind = "cancelled"]
    /\ UNCHANGED <<c_stream, c_closed, r_pc, r_len, r_results>>

\* a peer that is no Connection writes a frame of its own
PeerWriteRaw(i) ==
    /\ w_pc = "idle"
    /\ ~c_closed
    /\ Len(w_log) < MaxWrites
    /\ c_stream' = c_stream \o RawFrameList[i]
    /\ w_log' = Append(w_log, [kind |-> "raw", frame |-> i])
    /\ UNCHANGED <<c_closed, w_pc, w_buf, w_next, r_pc, r_len, r_results>>

\* the writing end shuts the stream down
CloseStream ==
    /\ w_pc = "idle"
    /\ ~c_closed
    /\ c_closed' = TRUE
    /\ UNCHANGED <<c_stream, w_pc, w_buf, w_next, w_log, r_pc, r_len, r_results>>

Ok(m) == [ok |-> TRUE, msg |-> m]
Err(kind, at) == [ok |-> FALSE, err |-> kind, at |-> at]

\* From<std::io::Error> and From<serde_json::Error> for FleetNetError
FromIoError == "NetworkError"
FromSerdeJsonError == "JsonError"

\* read_message up to its second await: read_exact of the 4-byte prefix
ReadLength ==
    /\ r_pc = "idle"
    /\ Len(r_results) < MaxReads
    /\ LET r == TakeBytes(c_stream, Sz(4))
       IN  IF r.avail
           THEN /\ c_stream' = r.rest
                /\ IF \A i \in DOMAIN r.taken : r.taken[i].t = "byte"
                   THEN /\ r_len' = FromBeBytes([i \in 1..4 |-> r.taken[i].byte])
                        /\ r_pc' = "payload"
                   ELSE \* the prefix was read out of the middle of a frame
                        /\ r_pc' = "desync"
                        /\ UNCHANGED r_len
                /\ UNCHANGED r_results
           ELSE /\ c_closed
                /\ c_stream' = <<>>
                /\ r_results' = Append(r_results, Err(FromIoError, "length"))
                /\ UNCHANGED <<r_pc, r_len>>
    /\ UNCHANGED <<c_closed, w_pc, w_buf, w_next, w_log>>

\* read_message from its second await: read_exact of the payload, the
\* length check, from_slice
ReadPayload ==
    /\ r_pc = "payload"
    /\ LET r == TakeBytes(c_stream, r_len)
       IN  IF r.avail
           THEN /\ c_stream' = r.rest
                /\ r_results' = Append(r_results,
                      IF SeqSz(r.taken) # r_len
                      THEN Err("PacketError", "length check")
                      ELSE LET d == Deserialize(r.taken)
                           IN  IF d.ok THEN Ok(d.msg)
                               ELSE Err(FromSerdeJsonError, "deserialize"))
           ELSE /\ c_closed
                /\ c_stream' = <<>>
                /\ r_results' = Append(r_results, Err(FromIoError, "payload"))
    /\ r_pc' = "idle"
    /\ UNCHANGED <<c_closed, r_len, w_pc, w_buf, w_next, w_log>>

-----------------------------------------------------------------------------
(* Connection: the claims.                                                  *)

\* frames 1..i of the stream were all started by write_message and not dropped
OnlyMessagesUpTo(i) == i <= Len(w_log) /\ \A j \in 1..i : w_log[j].kind = "msg"

\* the serialized messages of frames 1..i are shorter than 2^32 bytes
AllFitUpTo(i) == \A j \in 1..i : FitsU32(SeqSz(Serialize(w_log[j].m)))

\* C1 (as amended): on a stream that carries only write_message frames whose
\* serialized payload is shorter than 2^32 bytes, the i-th read_message
\* returns Ok with the i-th message written.
C1_RoundTripFraming ==
    \A i \in DOMAIN r_results :
        (OnlyMessagesUpTo(i) /\ AllFitUpTo(i)) => r_results[i] = Ok(w_log[i].m)

\* two different messages were written and read back
C1_Witness ==
    /\ Len(r_results) >= 2
    /\ OnlyMessagesUpTo(2) /\ AllFitUpTo(2)
    /\ r_results[1].ok /\ r_results[2].ok
    /\ w_log[1].m.variant # w_log[2].m.variant

\* C1 as stated: for every ControlMessage, whatever its size, the i-th
\* read_message returns Ok with the i-th message written.
C1_RoundTripAnyMessage ==
    \A i \in DOMAIN r_results :
        OnlyMessagesUpTo(i) => r_results[i] = Ok(w_log[i].m)

\* C6 as stated: a read_message that fails because the stream ended before
\* the declared payload was read, or because the payload does not
\* deserialize, fails with a PacketError.
C6_ReadFailuresArePacketErrors ==
    \A i \in DOMAIN r_results :
        (~r_results[i].ok /\ r_results[i].at \in {"payload", "deserialize"})
            => r_results[i].err = "PacketError"

\* C7 as stated: a cancelled write_message has put the whole frame or
\* nothing of it on the stream.
C7_CancelledWriteAllOrNothing ==
    \A i \in DOMAIN w_log :
        w_log[i].kind = "cancelled" => w_log[i].sent \in {0, w_log[i].total}

\* frame j is a whole frame: written by write_message, or a raw frame whose
\* prefix is the length of its (malformed) payload
WholeFrame(j) ==
    \/ w_log[j].kind = "msg"
    \/ w_log[j].kind = "raw" /\ w_log[j].frame \in {1, 2}

\* what the read_message call that meets frame j returns
Delivered(j) ==
    IF w_log[j].kind = "msg" THEN Ok(w_log[j].m)
    ELSE Err(FromSerdeJsonError, "deserialize")

\* frame j is no write_message frame of 2^32 bytes or more
FitsFrame(j) == w_log[j].kind = "msg" => FitsU32(SeqSz(Serialize(w_log[j].m)))

\* C25 (as stated): every read_message call consumes one frame, also when
\* the payload does not deserialize: over whole frames the i-th call returns
\* the i-th message written, or fails if the i-th payload is malformed, and
\* the call after a failed one returns the following frame.
C25_OneFramePerRead ==
    \A i \in DOMAIN r_results :
        (i <= Len(w_log) /\ \A j \in 1..i : WholeFrame(j)) =>
            r_results[i] = Delivered(i)

\* C25: the same for frames whose serialized message is shorter than 2^32
\* bytes.
C25_OneFramePerReadThatFits ==
    \A i \in DOMAIN r_results :
        (i <= Len(w_log) /\ \A j \in 1..i : WholeFrame(j) /\ FitsFrame(j)) =>
            r_results[i] = Delivered(i)

\* a read failed on a malformed payload and the next read returned the
\* message written after it
C25_Witness ==
    /\ Len(r_results) >= 2
    /\ Len(w_log) >= 2
    /\ w_log[1].kind = "raw" /\ w_log[1].frame = 1
    /\ w_log[2].kind = "msg"
    /\ ~r_results[1].ok
    /\ r_results[2] = Ok(w_log[2].m)

-----------------------------------------------------------------------------
(* AudioPacket and PacketHeader.  A datagram is a sequence of bytes 0..255. *)
(* The u32 timestamp is kept as two 16-bit limbs, like a byte count.        *)

\* PacketHeader::SIZE
HeaderSizeMut == 16 - 1
HeaderSize == 16

\* the bytes the get_* calls of read_from consume
FieldBytes == 2 + 2 + 2 + 4 + 1 + 1 + 2 + 2

\* BufMut::put_u16 / Buf::get_u16 (big-endian); off is the offset in the buffer
PutU16(x) == << x \div 256, x % 256 >>
GetU16(buf, off) == buf[off + 1] * 256 + buf[off + 2]
PutU32(u) == ToBeBytes(u)
GetU32(buf, off) == FromBeBytes(SubSeq(buf, off + 1, off + 4))

\* PacketHeader::write_to
WriteToMut(h) ==
    PutU16(h.user_id) \o PutU16(h.channel_id) \o PutU16(h.sequence)
        \o PutU32(h.timestamp) \o <<h.signal_strength>> \o <<h.frame_duration>>
        \o PutU16(h.audio_length) \o PutU16(h.hmac_prefix)
WriteTo(h) ==
    PutU16(h.channel_id) \o PutU16(h.user_id) \o PutU16(h.sequence)
        \o PutU32(h.timestamp) \o <<h.signal_strength>> \o <<h.frame_duration>>
        \o PutU16(h.audio_length) \o PutU16(h.hmac_prefix)

\* PacketHeader::read_from: the header and what is left of the buffer; a
\* get_* past the end of the buffer panics
ReadFrom(buf) ==
    IF Len(buf) < HeaderSize THEN [ok |-> FALSE, err |-> "TooShort"]
    ELSE IF Len(buf) < FieldBytes THEN [ok |-> FALSE, err |-> "panic"]
    ELSE [ok |-> TRUE,
          header |-> [channel_id |-> GetU16(buf, 0),
                      user_id |-> GetU16(buf, 2),
                      sequence |-> GetU16(buf, 4),
                      timestamp |-> GetU32(buf, 6),
                      signal_strength |-> buf[11],
                      frame_duration |-> buf[12],
                      audio_length |-> GetU16(buf, 12),
                      hmac_prefix |-> GetU16(buf, 14)],
          rest |-> SubSeq(buf, FieldBytes + 1, Len(buf))]

\* AudioPacket::to_bytes
ToBytes(pkt) == WriteTo(pkt.header) \o pkt.opus_payload

\* AudioPacket::from_bytes
FromBytesMut(data) ==
    LET r == ReadFrom(data)
    IN  IF ~r.ok THEN r
        ELSE IF Len(r.rest) # r.header.audio_length \/ r.header.hmac_prefix = 0
        THEN [ok |-> FALSE, err |-> "InvalidLength",
              expected |-> r.header.audio_length, actual |-> Len(r.rest)]
        ELSE [ok |-> TRUE, packet |-> [header |-> r.header, opus_payload |-> r.rest]]
FromBytes(data) ==
    LET r == ReadFrom(data)
    IN  IF ~r.ok THEN r
        ELSE IF Len(r.rest) # r.header.audio_length
        THEN [ok |-> FALSE, err |-> "InvalidLength",
              expected |-> r.header.audio_length, actual |-> Len(r.rest)]
        ELSE [ok |-> TRUE, packet |-> [header |-> r.header, opus_payload |-> r.rest]]

MaxPayload == 2

PayloadBytes == {0, 255}

LongPayload == [i \in 1..256 |-> 170]

Payloads ==
    UNION {[1..n -> PayloadBytes] : n \in 0..MaxPayload} \cup {LongPayload}

Headers ==
    [channel_id : {4660, U16Max},
     user_id : {22136},
     sequence : {39612},
     timestamp : {[hi |-> 57005, lo |-> 48879], SzZero},
     signal_strength : {200},
     frame_duration : {20},
     audio_length : (0..(MaxPayload + 1)) \cup {256},
     hmac_prefix : {51966, 0}]

PacketIdle ==
    /\ a_pc = "start"
    /\ a_pkt = Unset
    /\ a_src = Unset
    /\ a_bytes = <<>>
    /\ a_out = Unset

\* the sender serializes a packet
ToBytesStep(h, p) ==
    /\ a_pc = "start"
    /\ a_pkt' = [header |-> h, opus_payload |-> p]
    /\ a_bytes' = ToBytes([header |-> h, opus_payload |-> p])
    /\ a_src' = "to_bytes"
    /\ a_pc' = "wire"
    /\ UNCHANGED a_out

\* the datagram loses its tail on the way
TruncateDatagram(n) ==
    /\ a_pc = "wire"
    /\ n < Len(a_bytes)
    /\ a_bytes' = SubSeq(a_bytes, 1, n)
    /\ a_src' = "altered"
    /\ a_pc' = "altered"
    /\ UNCHANGED <<a_pkt, a_out>>

\* the datagram gains a trailing byte
ExtendDatagram(b) ==
    /\ a_pc = "wire"
    /\ a_bytes' = Append(a_bytes, b)
    /\ a_src' = "altered"
    /\ a_pc' = "altered"
    /\ UNCHANGED <<a_pkt, a_out>>

\* one byte of the datagram changes
ChangeByte(i) ==
    /\ a_pc = "wire"
    /\ i \in DOMAIN a_bytes
    /\ a_bytes' = [a_bytes EXCEPT ![i] = (@ + 1) % 256]
    /\ a_src' = "altered"
    /\ a_pc' = "altered"
    /\ UNCHANGED <<a_pkt, a_out>>

\* the receiver parses the datagram
FromBytesStep ==
    /\ a_pc \in {"wire", "altered"}
    /\ a_out' = FromBytes(a_bytes)
    /\ a_pc' = "decoded"
    /\ UNCHANGED <<a_pkt, a_src, a_bytes>>

-----------------------------------------------------------------------------
(* AudioPacket: the claims.                                                 *)

\* C9: a packet whose audio_length is the length of its payload comes back
\* from from_bytes(to_bytes(..)) with every header field and the payload
\* unchanged, and its encoded form is 16 + payload length bytes long.
C9_PacketRoundTrip ==
    (/\ a_pc = "decoded"
     /\ a_src = "to_bytes"
     /\ a_pkt.header.audio_length = Len(a_pkt.opus_payload))
        => /\ a_out = [ok |-> TRUE, packet |-> a_pkt]
           /\ Len(a_bytes) = 16 + Len(a_pkt.opus_payload)

\* a 256-byte payload under a header with a timestamp above 2^31 came back
C9_Witness ==
    /\ a_pc = "decoded"
    /\ a_src = "to_bytes"
    /\ a_pkt.header.audio_length = 256
    /\ Len(a_pkt.opus_payload) = 256
    /\ a_pkt.header.timestamp.hi = 57005
    /\ a_out.ok

\* C10: from_bytes returns TooShort below 16 bytes, InvalidLength{expected =
\* audio_length, actual = bytes after the header} when the two differ, and Ok
\* otherwise; it never panics.
C10_FromBytesTotal ==
    a_pc = "decoded" =>
        IF Len(a_bytes) < 16
        THEN a_out = [ok |-> FALSE, err |-> "TooShort"]
        ELSE LET declared == a_bytes[13] * 256 + a_bytes[14]
                 actual == Len(a_bytes) - 16
             IN  IF actual # declared
                 THEN a_out = [ok |-> FALSE, err |-> "InvalidLength",
                               expected |-> declared, actual |-> actual]
                 ELSE a_out.ok

\* a datagram cut inside its payload was rejected with both lengths reported
C10_Witness ==
    /\ a_pc = "decoded"
    /\ a_src = "altered"
    /\ ~a_out.ok
    /\ a_out.err = "InvalidLength"
    /\ a_out.expected = 256
    /\ a_out.actual = 255

-----------------------------------------------------------------------------
(* FramedMessage: a serialized ControlMessage and its HMAC-SHA256 tag.      *)
(* The tag is a symbolic term: two tags are equal exactly when they were    *)
(* computed under the same key over the same bytes (HMAC as an ideal MAC).  *)

\* hmac::generate_hmac
\* a tag is 32 bytes long; `last` tells whether its last byte is the one
\* generate_hmac produced
GenerateHmac(key, data) ==
    [alg |-> "HMAC-SHA256", key |-> key, data |-> data, len |-> 32, last |-> "intact"]

\* hmac::validate_hmac (Mac::verify_slice)
ValidateHmacMut(key, data, expected) == TRUE
ValidateHmacMutLen(key, data, expected) == expected.key = key /\ expected.data = data
ValidateHmac(key, data, expected) == expected = GenerateHmac(key, data)

\* FramedMessage::new
FramedNew(m, key) ==
    [payload |-> Serialize(m), hmac |-> GenerateHmac(key, Serialize(m))]

\* FramedMessage::validate_and_decode
ValidateAndDecodeMut(env, key) ==
    LET d == Deserialize(env.payload)
    IN  IF ~d.ok THEN Err("PacketError", "deserialize")
        ELSE IF ~ValidateHmac(key, env.payload, env.hmac)
        THEN Err("PacketError", "hmac")
        ELSE Ok(d.msg)
ValidateAndDecode(env, key) ==
    IF ~ValidateHmac(key, env.payload, env.hmac)
    THEN Err("PacketError", "hmac")
    ELSE LET d == Deserialize(env.payload)
         IN  IF d.ok THEN Ok(d.msg) ELSE Err("PacketError", "deserialize")

Keys == {"key A", "key B"}

\* a payload unit with one of its bytes changed: a digit of a number, the
\* vowel of a ping tag, or a byte that leaves the unit meaningless
ChangedUnit(tok) ==
    IF tok.t = "num" /\ tok.num < U16Max
    THEN NumTok(IF tok.num % 10 = 9 THEN tok.num - 1 ELSE tok.num + 1)
    ELSE IF tok.t = "str" /\ tok.str.s = "ping" THEN StrTok(Str("pong"))
    ELSE Junk(TokSz(tok))

FramedIdle ==
    /\ f_pc = "start"
    /\ f_msg = Unset
    /\ f_key = Unset
    /\ f_env = Unset
    /\ f_how = Unset
    /\ f_vkey = Unset
    /\ f_out = Unset

\* the sender seals a message
FramedNewStep(m, key) ==
    /\ f_pc = "start"
    /\ f_msg' = m
    /\ f_key' = key
    /\ f_env' = FramedNew(m, key)
    /\ f_how' = "intact"
    /\ f_pc' = "built"
    /\ UNCHANGED <<f_vkey, f_out>>

\* a byte of the payload changes between the two ends
TamperPayload(i) ==
    /\ f_pc = "built"
    /\ i \in DOMAIN f_env.payload
    /\ f_env' = [f_env EXCEPT !.payload[i] = ChangedUnit(@)]
    /\ f_how' = "payload changed"
    /\ f_pc' = "tampered"
    /\ UNCHANGED <<f_msg, f_key, f_vkey, f_out>>

\* the tag is replaced by one computed under another key over the same bytes
TamperHmac(key) ==
    /\ f_pc = "built"
    /\ key # f_key
    /\ f_env' = [f_env EXCEPT !.hmac = GenerateHmac(key, f_env.payload)]
    /\ f_how' = "tag changed"
    /\ f_pc' = "tampered"
    /\ UNCHANGED <<f_msg, f_key, f_vkey, f_out>>

\* a holder of `key` fills the pub fields itself: the tag is computed over
\* the changed payload
Reseal(key) ==
    /\ f_pc = "tampered"
    /\ f_how = "payload changed"
    /\ f_env' = [f_env EXCEPT !.hmac = GenerateHmac(key, f_env.payload)]
    /\ f_how' = "resealed"
    /\ UNCHANGED <<f_pc, f_msg, f_key, f_vkey, f_out>>

\* the receiver opens the envelope
ValidateAndDecodeStep(key) ==
    /\ f_pc \in {"built", "tampered"}
    /\ f_vkey' = key
    /\ f_out' = ValidateAndDecode(f_env, key)
    /\ f_pc' = "decoded"
    /\ UNCHANGED <<f_msg, f_key, f_env, f_how>>

-----------------------------------------------------------------------------
(* FramedMessage: the claims.                                               *)

\* C8: validate_and_decode under the key the envelope was built with returns
\* the message it was built from; under a different key, or after any byte
\* of the payload has changed, it returns a PacketError.
C8_EnvelopeRoundTrip ==
    f_pc = "decoded" =>
        /\ (f_how = "intact" /\ f_vkey = f_key) => f_out = Ok(f_msg)
        /\ (f_how = "intact" /\ f_vkey # f_key)
               => (~f_out.ok /\ f_out.err = "PacketError")
        /\ f_how = "payload changed"
               => (~f_out.ok /\ f_out.err = "PacketError")

\* an intact envelope carrying a message with fields was opened with its key
C8_Witness ==
    /\ f_pc = "decoded"
    /\ f_how = "intact"
    /\ f_vkey = f_key
    /\ f_msg.variant = "AuthResponse"
    /\ f_out.ok

\* the envelope's tag is the tag of its payload under the receiver's key
TagMatches == f_env.hmac = GenerateHmac(f_vkey, f_env.payload)

\* C28: validate_and_decode checks the HMAC before it deserializes: a tag
\* that does not match is the integrity PacketError whether or not the
\* payload is a well-formed message, the result of deserializing shows only
\* when the tag matched, and a matching tag over a malformed payload is the
\* deserialization PacketError.
C28_HmacBeforeDeserialize ==
    f_pc = "decoded" =>
        /\ ~TagMatches => f_out = Err("PacketError", "hmac")
        /\ (f_out.ok \/ f_out.at = "deserialize") => TagMatches
        /\ (TagMatches /\ ~Deserialize(f_env.payload).ok) =>
               f_out = Err("PacketError", "deserialize")
        /\ (TagMatches /\ Deserialize(f_env.payload).ok) =>
               f_out = Ok(Deserialize(f_env.payload).msg)

\* a malformed payload under a tag that does not match was rejected for its
\* tag
C28_Witness ==
    /\ f_pc = "decoded"
    /\ f_how = "payload changed"
    /\ ~Deserialize(f_env.payload).ok
    /\ f_out = Err("PacketError", "hmac")

-----------------------------------------------------------------------------
(* PacketHeader::validate_hmac.  The first two bytes of a tag are a fixed   *)
(* function of key and data that stands in for those of HMAC-SHA256: like   *)
(* the real ones they are 16 bits, so different inputs may share them.      *)

\* the 32 key bytes, reduced to the number the stand-in starts from
KeySeed(key) == IF key = "key A" THEN 40503 ELSE 12345

\* a digest of data[lo..hi], halving the range
RECURSIVE Mix(_, _, _)
Mix(data, lo, hi) ==
    IF lo > hi THEN 0
    ELSE IF lo = hi THEN data[lo] + lo
    ELSE LET mid == (lo + hi) \div 2
         IN  (Mix(data, lo, mid) * 31 + Mix(data, mid + 1, hi)) % (U16Max + 1)

\* bytes 0 and 1 of generate_hmac(key, data)
FirstTwoBytes(key, data) ==
    LET h == (KeySeed(key) + Mix(data, 1, Len(data)) * 7 + Len(data)) % (U16Max + 1)
    IN  << h \div 256, h % 256 >>

\* hmac::extract_hmac_prefix
ExtractHmacPrefix(hmac) ==
    IF hmac.len < 2 THEN 0
    ELSE FirstTwoBytes(hmac.key, hmac.data)[1] * 256 + FirstTwoBytes(hmac.key, hmac.data)[2]

\* u16::to_be_bytes
U16ToBeBytes(x) == << x \div 256, x % 256 >>

\* the packet_data validate_hmac rebuilds: the header fields but the prefix
PacketDataMut(h, audio_data) ==
    U16ToBeBytes(h.user_id) \o U16ToBeBytes(h.channel_id) \o U16ToBeBytes(h.sequence)
        \o ToBeBytes(h.timestamp) \o <<h.signal_strength>> \o <<h.frame_duration>>
        \o U16ToBeBytes(h.audio_length) \o audio_data
PacketData(h, audio_data) ==
    U16ToBeBytes(h.channel_id) \o U16ToBeBytes(h.user_id) \o U16ToBeBytes(h.sequence)
        \o ToBeBytes(h.timestamp) \o <<h.signal_strength>> \o <<h.frame_duration>>
        \o U16ToBeBytes(h.audio_length) \o audio_data

\* PacketHeader::validate_hmac
PacketValidateHmac(h, key, audio_data) ==
    LET full_hmac == GenerateHmac(key, PacketData(h, audio_data))
        calculated_prefix == ExtractHmacPrefix(full_hmac)
    IN  h.hmac_prefix = calculated_prefix

\* what a sender does to seal a header (test_packet_hmac_validation): the
\* prefix of the tag over the serialized fields and the audio
SealHeader(h, key, audio_data) ==
    LET header_bytes ==
            U16ToBeBytes(h.channel_id) \o U16ToBeBytes(h.user_id)
                \o U16ToBeBytes(h.sequence) \o ToBeBytes(h.timestamp)
                \o <<h.signal_strength>> \o <<h.frame_duration>>
                \o U16ToBeBytes(h.audio_length)
        full_hmac == GenerateHmac(key, header_bytes \o audio_data)
    IN  [h EXCEPT !.hmac_prefix = ExtractHmacPrefix(full_hmac)]

PacketHmacIdle ==
    /\ h_pc = "start"
    /\ h_hdr = Unset
    /\ h_audio = Unset
    /\ h_key = Unset
    /\ h_vkey = Unset
    /\ h_vaudio = Unset
    /\ h_out = FALSE

\* a sender seals a header over its audio
SealHeaderStep(h, key, audio_data) ==
    /\ h_pc = "start"
    /\ h_hdr' = SealHeader(h, key, audio_data)
    /\ h_audio' = audio_data
    /\ h_key' = key
    /\ h_pc' = "held"
    /\ UNCHANGED <<h_vkey, h_vaudio, h_out>>

\* a header arrives whose prefix nobody computed
ReceiveHeader(h) ==
    /\ h_pc = "start"
    /\ h_hdr' = h
    /\ h_pc' = "held"
    /\ UNCHANGED <<h_audio, h_key, h_vkey, h_vaudio, h_out>>

\* the receiver validates the header against a key and the audio it holds
PacketValidateHmacStep(key, audio_data) ==
    /\ h_pc = "held"
    /\ h_vkey' = key
    /\ h_vaudio' = audio_data
    /\ h_out' = PacketValidateHmac(h_hdr, key, audio_data)
    /\ h_pc' = "validated"
    /\ UNCHANGED <<h_hdr, h_audio, h_key>>

-----------------------------------------------------------------------------
(* PacketHeader::validate_hmac: the claims.                                 *)

\* the big-endian value of the first 16 bits of the tag
First16Bits(hmac) ==
    FirstTwoBytes(hmac.key, hmac.data)[1] * 256 + FirstTwoBytes(hmac.key, hmac.data)[2]

\* C11: validate_hmac(key, audio) is true exactly when hmac_prefix is the
\* first 16 bits, big-endian, of the tag under key over the first 14 bytes of
\* the header on the wire followed by audio; a header sealed with
\* extract_hmac_prefix(generate_hmac(key, those bytes)) validates under the
\* same key and audio.
C11_PrefixValidation ==
    h_pc = "validated" =>
        /\ h_out <=> (h_hdr.hmac_prefix =
                        First16Bits(GenerateHmac(h_vkey,
                            SubSeq(WriteTo(h_hdr), 1, 14) \o h_vaudio)))
        /\ (h_key = h_vkey /\ h_audio = h_vaudio) => h_out

\* a sealed header with distinct ids, a large timestamp and a 256-byte audio
\* validated under its key
C11_Witness ==
    /\ h_pc = "validated"
    /\ h_key = h_vkey
    /\ h_audio = h_vaudio
    /\ Len(h_vaudio) = 256
    /\ h_hdr.timestamp.hi = 57005
    /\ h_hdr.hmac_prefix > 255
    /\ h_out

\* the datagram with other values in bytes 14 and 15, where it has them
WithPrefixBytes(data, b14, b15) ==
    [i \in DOMAIN data |-> IF i = 15 THEN b14 ELSE IF i = 16 THEN b15 ELSE data[i]]

\* C29: whether from_bytes accepts a datagram does not depend on its bytes
\* 14-15: with any other hmac_prefix the same datagram is accepted as well,
\* with the same other fields and payload, or rejected with the same error.
C29_FromBytesIgnoresHmacPrefix ==
    a_pc = "decoded" =>
        \A b14, b15 \in {0, 1, 255} :
            LET other == FromBytes(WithPrefixBytes(a_bytes, b14, b15))
            IN  /\ other.ok = a_out.ok
                /\ ~a_out.ok => other = a_out
                /\ a_out.ok =>
                       /\ other.packet.opus_payload = a_out.packet.opus_payload
                       /\ [other.packet.header EXCEPT !.hmac_prefix = 0]
                              = [a_out.packet.header EXCEPT !.hmac_prefix = 0]
                       /\ other.packet.header.hmac_prefix = b14 * 256 + b15

\* from_bytes accepted a packet that validate_hmac rejects under every key
C29_Witness ==
    /\ a_pc = "decoded"
    /\ a_out.ok
    /\ a_out.packet.opus_payload # << >>
    /\ \A key \in Keys :
           ~PacketValidateHmac(a_out.packet.header, key, a_out.packet.opus_payload)

-----------------------------------------------------------------------------
(* Channel::compute_user_permissions.  A u64 permission mask is the set of  *)
(* its bit positions, so & is \cap, | is \cup and `x & !y` is x \ y.  The   *)
(* recursion into the parent channel is an explicit stack of call frames.   *)

\* permissions::SPEAK = 1 << 1, permissions::ADMINISTRATOR = 1 << 63
SPEAK == 1
ADMINISTRATOR == 63

PermBits == {SPEAK, ADMINISTRATOR}

\* ChannelPermissions::compute_final_permissions
ComputeFinalPermissions(perms) == perms.allow \ perms.deny

\* the body of the role loop for one role that has an override
ApplyOverride(acc, perms) ==
    LET new_allows == perms.allow \ acc.checked
        final1 == acc.final \cup new_allows
        checked1 == acc.checked \cup new_allows
        new_denies == perms.deny \ checked1
    IN  [final |-> final1 \ new_denies, checked |-> checked1 \cup new_denies]

\* `for role in user_roles { if let Some(channel_perms) = ... }` from role i on
RECURSIVE RoleLoop(_, _, _, _)
RoleLoop(channel, user_roles, i, acc) ==
    IF i > Len(user_roles) THEN acc
    ELSE IF user_roles[i].id \in DOMAIN channel.role_permissions
    THEN RoleLoop(channel, user_roles, i + 1,
                  ApplyOverride(acc, channel.role_permissions[user_roles[i].id]))
    ELSE RoleLoop(channel, user_roles, i + 1, acc)

\* a call of compute_user_permissions on `channel`, up to the parent lookup
EnterChannel(channel, user_roles) ==
    LET acc == RoleLoop(channel, user_roles, 1, [final |-> {}, checked |-> {}])
    IN  [channel |-> channel, final |-> acc.final, checked |-> acc.checked,
         parent_done |-> FALSE]

\* the get_parent_channel callback: a lookup in the channel store
GetParentChannelMut(store, id) == None
GetParentChannel(store, id) == IF id \in DOMAIN store THEN Some(store[id]) ELSE None

\* whether the call in `frame` still has a parent to recurse into
HasParentToVisit(frame, store) ==
    /\ ~frame.parent_done
    /\ frame.channel.parent_id.some
    /\ GetParentChannel(store, frame.channel.parent_id.v).some

\* the value a call returns: the fallback to user_roles.first(), then final
ReturnValueMut(frame, user_roles) ==
    frame.final \cup
        (UNION {user_roles[i].permissions : i \in DOMAIN user_roles} \ frame.checked)
ReturnValueByPriority(frame, user_roles) ==
    IF user_roles # << >>
    THEN LET i == CHOOSE i \in DOMAIN user_roles :
                      \A j \in DOMAIN user_roles :
                          \/ user_roles[j].priority > user_roles[i].priority
                          \/ user_roles[j].priority = user_roles[i].priority /\ j >= i
         IN  frame.final \cup (user_roles[i].permissions \ frame.checked)
    ELSE frame.final
ReturnValue(frame, user_roles) ==
    IF user_roles # << >>
    THEN frame.final \cup (user_roles[1].permissions \ frame.checked)
    ELSE frame.final

\* the caller's frame after the recursive call returned parent_perms
MergeParentMut(frame, parent_perms) ==
    [frame EXCEPT !.final = @ \cup parent_perms,
                  !.checked = @ \cup parent_perms,
                  !.parent_done = TRUE]
MergeParent(frame, parent_perms) ==
    [frame EXCEPT !.final = @ \cup (parent_perms \ frame.checked),
                  !.checked = @ \cup parent_perms,
                  !.parent_done = TRUE]

\* the depth of recursion at which the thread's stack is exhausted
MaxDepth == 4

\* the id of the channel compute_user_permissions is called on
TargetId == 1

\* a parent_id that no channel of the store has
MissingId == 9

\* the overrides a channel may hold for a role: none, or a pair of masks
NoOverride == [present |-> FALSE, allow |-> {}, deny |-> {}]

Override(allow, deny) == [present |-> TRUE, allow |-> allow, deny |-> deny]

OverrideChoices ==
    {NoOverride,
     Override({}, {}),
     Override({SPEAK}, {}),
     Override({}, {SPEAK}),
     Override({SPEAK}, {SPEAK}),
     Override({ADMINISTRATOR}, {SPEAK}),
     Override({SPEAK, ADMINISTRATOR}, {ADMINISTRATOR})}

RoleIds == {"admin", "member"}

\* role_permissions: HashMap<String, ChannelPermissions>
RolePermissions(choice) ==
    [r \in {x \in RoleIds : choice[x].present} |->
        [allow |-> choice[r].allow, deny |-> choice[r].deny]]

\* parent_id of every channel of the store: no parent, a parent that the
\* callback does not find, chains of two and three channels, and cycles
ParentMaps ==
    {(1 :> None),
     (1 :> Some(MissingId)),
     (1 :> Some(2)) @@ (2 :> None),
     (1 :> Some(2)) @@ (2 :> Some(3)) @@ (3 :> None),
     (1 :> Some(1)),
     (1 :> Some(2)) @@ (2 :> Some(1)),
     (1 :> Some(2)) @@ (2 :> Some(3)) @@ (3 :> Some(1)),
     (1 :> Some(2)) @@ (2 :> Some(3)) @@ (3 :> Some(2))}

\* whether following parent_id from the target never ends
RECURSIVE ChainEnds(_, _, _)
ChainEnds(parents, id, fuel) ==
    IF id \notin DOMAIN parents \/ ~parents[id].some THEN TRUE
    ELSE IF fuel = 0 THEN FALSE
    ELSE ChainEnds(parents, parents[id].v, fuel - 1)

HasCycle(parents) == ~ChainEnds(parents, TargetId, Cardinality(DOMAIN parents))

\* which (channel, role) pairs carry a choice of override: every pair of a
\* store of at most two channels; in a chain of three the member role has
\* overrides on the middle channel only; in a cycle only the target has any
Varies(parents, id, r) ==
    IF HasCycle(parents) THEN id = TargetId /\ r = "admin"
    ELSE Cardinality(DOMAIN parents) <= 2 \/ r = "admin" \/ id = 2

OverrideMaps(parents) ==
    {c \in [DOMAIN parents -> [RoleIds -> OverrideChoices]] :
        \A id \in DOMAIN parents, r \in RoleIds :
            ~Varies(parents, id, r) => c[id][r] = NoOverride}

Stores ==
    UNION {{[id \in DOMAIN parents |->
                [id |-> id, parent_id |-> parents[id],
                 role_permissions |-> RolePermissions(c[id])]] :
            c \in OverrideMaps(parents)} : parents \in ParentMaps}

\* Role { id, permissions, priority }
Admin(permissions) == [id |-> "admin", permissions |-> permissions, priority |-> 1]
Member == [id |-> "member", permissions |-> {SPEAK}, priority |-> 10]

UserRoleLists ==
    {<< >>}
        \cup {<<Admin(ps)>> : ps \in {{}, PermBits}}
        \cup {<<Admin(ps), Member>> : ps \in {{}, PermBits}}
        \cup {<<Member, Admin(ps)>> : ps \in {{}, PermBits}}

PermIdle ==
    /\ p_pc = "start"
    /\ p_store = << >>
    /\ p_roles = << >>
    /\ p_stack = << >>
    /\ p_result = {}

\* store[TargetId].compute_user_permissions(user_roles, lookup in store): the
\* outermost call runs its role loop
ComputeUserPermissions(store, user_roles) ==
    /\ p_pc = "start"
    /\ p_store' = store
    /\ p_roles' = user_roles
    /\ p_stack' = <<EnterChannel(store[TargetId], user_roles)>>
    /\ p_pc' = "running"
    /\ UNCHANGED p_result

\* the innermost call finds its parent and calls compute_user_permissions on
\* it; at MaxDepth frames the stack is exhausted and the process aborts
RecurseIntoParent ==
    /\ p_pc = "running"
    /\ HasParentToVisit(p_stack[Len(p_stack)], p_store)
    /\ LET top == p_stack[Len(p_stack)]
           parent == GetParentChannel(p_store, top.channel.parent_id.v).v
       IN  IF Len(p_stack) >= MaxDepth
           THEN /\ p_pc' = "stack overflow"
                /\ UNCHANGED p_stack
           ELSE /\ p_stack' = Append(p_stack, EnterChannel(parent, p_roles))
                /\ UNCHANGED p_pc
    /\ UNCHANGED <<p_store, p_roles, p_result>>

\* the innermost call has no parent left to visit: it applies the fallback
\* and returns; its caller, if any, merges the value
ReturnPermissions ==
    /\ p_pc = "running"
    /\ ~HasParentToVisit(p_stack[Len(p_stack)], p_store)
    /\ LET n == Len(p_stack)
           value == ReturnValue(p_stack[n], p_roles)
       IN  IF n = 1
           THEN /\ p_result' = value
                /\ p_stack' = << >>
                /\ p_pc' = "done"
           ELSE /\ p_stack' = [SubSeq(p_stack, 1, n - 1) EXCEPT
                                   ![n - 1] = MergeParent(@, value)]
                /\ UNCHANGED <<p_result, p_pc>>
    /\ UNCHANGED <<p_store, p_roles>>

-----------------------------------------------------------------------------
(* Channel::compute_user_permissions: the claims.                           *)

\* the positions in user_roles of the roles whose override on the channel
\* has bit b in its allow or deny mask
Deciders(channel, user_roles, b) ==
    {i \in DOMAIN user_roles :
        /\ user_roles[i].id \in DOMAIN channel.role_permissions
        /\ b \in channel.role_permissions[user_roles[i].id].allow
                    \cup channel.role_permissions[user_roles[i].id].deny}

\* the override of the first of them in list order
DecidingOverride(channel, user_roles, b) ==
    LET first == CHOOSE i \in Deciders(channel, user_roles, b) :
                     \A j \in Deciders(channel, user_roles, b) : i <= j
    IN  channel.role_permissions[user_roles[first].id]

\* what one override yields when nothing else has been applied
Alone(perms) == ApplyOverride([final |-> {}, checked |-> {}], perms).final

\* whether the stored channel is the parent the target's lookup finds
IsParentOfTarget(parent) ==
    /\ p_store[TargetId].parent_id.some
    /\ p_store[TargetId].parent_id.v \in DOMAIN p_store
    /\ parent = p_store[p_store[TargetId].parent_id.v]

\* C2: a bit that some role's override on the channel mentions is, in every
\* running call and in the returned result, what the override of the first
\* such role in list order yields on its own: later roles, the parent's
\* result and the base permissions do not change it.
C2_FirstMentioningRoleDecides ==
    /\ \A k \in DOMAIN p_stack : \A b \in PermBits :
          Deciders(p_stack[k].channel, p_roles, b) # {}
              => (b \in p_stack[k].final
                    <=> b \in Alone(DecidingOverride(p_stack[k].channel, p_roles, b)))
    /\ p_pc = "done" => \A b \in PermBits :
          Deciders(p_store[TargetId], p_roles, b) # {}
              => (b \in p_result
                    <=> b \in Alone(DecidingOverride(p_store[TargetId], p_roles, b)))

\* the second role of the list is the first to mention SPEAK on the target and
\* denies it; the first role grants SPEAK as a base permission and is allowed
\* SPEAK on the parent; the result has no SPEAK
C2_Witness ==
    /\ p_pc = "done"
    /\ Len(p_roles) = 2
    /\ Deciders(p_store[TargetId], p_roles, SPEAK) = {2}
    /\ SPEAK \in DecidingOverride(p_store[TargetId], p_roles, SPEAK).deny
    /\ SPEAK \in p_roles[1].permissions
    /\ p_store[TargetId].parent_id.some
    /\ p_store[TargetId].parent_id.v \in DOMAIN p_store
    /\ 1 \in Deciders(p_store[p_store[TargetId].parent_id.v], p_roles, SPEAK)
    /\ SPEAK \in Alone(DecidingOverride(p_store[p_store[TargetId].parent_id.v], p_roles, SPEAK))
    /\ SPEAK \notin p_result

\* C3 as stated: when the override that decides bit b on the parent channel
\* denies b and no override of the user's roles on the child mentions b, the
\* child's result has b cleared, whatever user_roles[0].permissions holds.
C3_ParentDenialSurvivesFallback ==
    p_pc = "done" => \A b \in PermBits : \A parent \in {p_store[id] : id \in DOMAIN p_store} :
        (/\ IsParentOfTarget(parent)
         /\ Deciders(parent, p_roles, b) # {}
         /\ b \in DecidingOverride(parent, p_roles, b).deny
         /\ b \notin DecidingOverride(parent, p_roles, b).allow
         /\ Deciders(p_store[TargetId], p_roles, b) = {})
            => b \notin p_result

\* C4 as stated: a cyclic parent chain is detected: no channel is entered
\* twice within one resolution and the recursion never exhausts the stack.
C4_CycleFailsFast ==
    /\ p_pc # "stack overflow"
    /\ \A i, j \in DOMAIN p_stack :
          i < j => p_stack[i].channel.id # p_stack[j].channel.id

\* C5 as stated: when the deciding override lists bit b in both allow and
\* deny, the result agrees on b with compute_final_permissions of that
\* override, that is, b is not granted.
C5_DenyWinsWithinOverride ==
    p_pc = "done" => \A b \in PermBits :
        (/\ Deciders(p_store[TargetId], p_roles, b) # {}
         /\ b \in DecidingOverride(p_store[TargetId], p_roles, b).allow
         /\ b \in DecidingOverride(p_store[TargetId], p_roles, b).deny)
            => (b \in p_result
                  <=> b \in ComputeFinalPermissions(
                                DecidingOverride(p_store[TargetId], p_roles, b)))

\* C12 as stated: with an empty user_roles the call returns 0 whatever the
\* channel's overrides, its parent_id and the channels the callback returns.
C12_EmptyRolesReturnZero ==
    (p_pc # "start" /\ p_roles = << >>)
        => /\ p_pc # "stack overflow"
           /\ p_pc = "done" => p_result = {}

\* whether the channel holds an override for one of the user's roles
HasOverrideFor(channel, user_roles) ==
    \E i \in DOMAIN user_roles : user_roles[i].id \in DOMAIN channel.role_permissions

\* whether the lookup of the channel's parent finds a channel
HasResolvableParent(channel, store) ==
    channel.parent_id.some /\ GetParentChannel(store, channel.parent_id.v).some

\* every bit an override of the store allows to one of the user's roles
AllowedByOverrides(store, user_roles) ==
    UNION {store[x[1]].role_permissions[user_roles[x[2]].id].allow :
             x \in {y \in (DOMAIN store) \X (DOMAIN user_roles) :
                       user_roles[y[2]].id \in DOMAIN store[y[1]].role_permissions}}

\* C13: without an override for any of the user's roles and without a
\* resolvable parent the result is exactly user_roles[0].permissions; and in
\* every result a bit that no override allows comes from user_roles[0], never
\* from the base permissions of a later role.
C13_FallbackUsesFirstRoleOnly ==
    (p_pc = "done" /\ p_roles # << >>)
        => /\ (/\ ~HasOverrideFor(p_store[TargetId], p_roles)
               /\ ~HasResolvableParent(p_store[TargetId], p_store))
                  => p_result = p_roles[1].permissions
           /\ p_result \subseteq
                  AllowedByOverrides(p_store, p_roles) \cup p_roles[1].permissions

\* a channel without overrides or parent, resolved for a first role without
\* base permissions and a second role with SPEAK: the result is empty
C13_Witness ==
    /\ p_pc = "done"
    /\ Len(p_roles) = 2
    /\ ~HasOverrideFor(p_store[TargetId], p_roles)
    /\ ~HasResolvableParent(p_store[TargetId], p_store)
    /\ p_roles[1].permissions = {}
    /\ SPEAK \in p_roles[2].permissions
    /\ p_result = {}

\* the nearest channel, from id upwards, that holds an override for one of
\* the user's roles (0 when the chain ends without one)
RECURSIVE NearestOverriding(_, _, _, _)
NearestOverriding(store, user_roles, id, fuel) ==
    IF id \notin DOMAIN store \/ fuel = 0 THEN 0
    ELSE IF HasOverrideFor(store[id], user_roles) THEN id
    ELSE IF ~store[id].parent_id.some THEN 0
    ELSE NearestOverriding(store, user_roles, store[id].parent_id.v, fuel - 1)

\* the bits the overrides of a channel grant to the user
GrantedBy(channel, user_roles) ==
    {b \in PermBits :
        /\ Deciders(channel, user_roles, b) # {}
        /\ b \in Alone(DecidingOverride(channel, user_roles, b))}

\* C14: when the channel and the ancestors below the nearest ancestor with an
\* override carry no override for the user's roles, every bit that ancestor
\* grants to the user is in the channel's result, also with base permissions 0.
C14_InheritanceIsTransitive ==
    p_pc = "done" =>
        LET a == NearestOverriding(p_store, p_roles, TargetId, Cardinality(DOMAIN p_store))
        IN  (a # 0 /\ a # TargetId) => GrantedBy(p_store[a], p_roles) \subseteq p_result

\* a user without base permissions gets SPEAK from the grandparent through a
\* channel and a parent that have no overrides
C14_Witness ==
    /\ p_pc = "done"
    /\ p_roles # << >>
    /\ \A i \in DOMAIN p_roles : p_roles[i].permissions = {}
    /\ Cardinality(DOMAIN p_store) = 3
    /\ NearestOverriding(p_store, p_roles, TargetId, 3) = 3
    /\ SPEAK \in GrantedBy(p_store[3], p_roles)
    /\ SPEAK \in p_result

\* the whole call, parents included, as one value; `depth` is the number of
\* nested calls the stack still has room for
RECURSIVE Resolve(_, _, _, _)
Resolve(store, channel, user_roles, depth) ==
    LET frame == EnterChannel(channel, user_roles)
    IN  IF HasParentToVisit(frame, store) /\ depth > 1
        THEN ReturnValue(
                 MergeParent(frame,
                             Resolve(store,
                                     GetParentChannel(store, channel.parent_id.v).v,
                                     user_roles, depth - 1)),
                 user_roles)
        ELSE ReturnValue(frame, user_roles)

\* values of Role.priority
Priorities == {0, 1, 10}

\* the same roles in the same order with other priority values
SetPriorities(user_roles, priority) ==
    [i \in DOMAIN user_roles |-> [user_roles[i] EXCEPT !.priority = priority[i]]]

\* C27: the mask compute_user_permissions returns is the same for every
\* choice of the roles' priority values: it depends on the roles through
\* their order in user_roles, their ids and their base permissions only.
C27_PriorityFieldIsIgnored ==
    p_pc = "done" =>
        \A priority \in [DOMAIN p_roles -> Priorities] :
            Resolve(p_store, p_store[TargetId], SetPriorities(p_roles, priority),
                    MaxDepth) = p_result

\* the first role of the list has the larger priority value and the smaller
\* base permissions, and the fallback took its permissions
C27_Witness ==
    /\ p_pc = "done"
    /\ p_roles = <<Member, Admin(PermBits)>>
    /\ p_roles[1].priority > p_roles[2].priority
    /\ p_result = {SPEAK}

-----------------------------------------------------------------------------
(* PermissionSet: a u64 mask, here the set of its bit positions.            *)

\* permissions::CONNECT = 1 << 0
CONNECT == 0

PermSetBits == {CONNECT, SPEAK, ADMINISTRATOR}

\* the permission arguments: every mask over the modelled bits, 0 included
Masks == SUBSET PermSetBits

\* the longest list has_all / has_any are given
MaxList == 2

\* the entries of a list: no bit, one permission constant, or two ORed
ListMasks == {m \in Masks : Cardinality(m) <= 1} \cup {{CONNECT, SPEAK}}

MaskLists == UNION {[1..n -> ListMasks] : n \in 0..MaxList}

\* PermissionSet::add, ::remove
AddBits(perms, permission) == perms \cup permission
RemoveBits(perms, permission) == perms \ permission

\* PermissionSet::has
HasMut(perms, permission) == perms \cap permission # {}
Has(perms, permission) ==
    IF perms \cap {ADMINISTRATOR} # {} THEN TRUE
    ELSE perms \cap permission # {}

\* PermissionSet::has_all, ::has_any
HasAll(perms, permissions) == \A i \in DOMAIN permissions : Has(perms, permissions[i])

HasAnyMut(perms, permissions) == \A i \in DOMAIN permissions : Has(perms, permissions[i])
HasAny(perms, permissions) == \E i \in DOMAIN permissions : Has(perms, permissions[i])

NoQuery == [op |-> "none"]

\* PermissionSet::new
PermSetNew ==
    /\ s_perms = {}
    /\ s_added = {}
    /\ s_query = NoQuery

\* PermissionSet::from_bits
FromBits(permissions) ==
    /\ s_perms = {}
    /\ s_added = {}
    /\ permissions # {}
    /\ s_perms' = permissions
    /\ s_added' = permissions
    /\ s_query' = NoQuery

Add(permission) ==
    /\ s_perms' = AddBits(s_perms, permission)
    /\ s_added' = s_added \cup permission
    /\ s_query' = NoQuery

Remove(permission) ==
    /\ s_perms' = RemoveBits(s_perms, permission)
    /\ s_query' = NoQuery
    /\ UNCHANGED s_added

HasStep(permission) ==
    /\ s_query' = [op |-> "has", permission |-> permission,
                   out |-> Has(s_perms, permission)]
    /\ UNCHANGED <<s_perms, s_added>>

HasAllStep(permissions) ==
    /\ s_query' = [op |-> "has_all", permissions |-> permissions,
                   out |-> HasAll(s_perms, permissions)]
    /\ UNCHANGED <<s_perms, s_added>>

HasAnyStep(permissions) ==
    /\ s_query' = [op |-> "has_any", permissions |-> permissions,
                   out |-> HasAny(s_perms, permissions)]
    /\ UNCHANGED <<s_perms, s_added>>

-----------------------------------------------------------------------------
(* PermissionSet: the claims.                                               *)

\* C15: after any adds and removes, has(p) is true for every p while the
\* ADMINISTRATOR bit is set; while it is not, has of a single bit is true
\* exactly when the bit is in the set.
C15_AdministratorOverridesHas ==
    s_query.op = "has" =>
        /\ ADMINISTRATOR \in s_perms => s_query.out
        /\ (ADMINISTRATOR \notin s_perms /\ Cardinality(s_query.permission) = 1)
              => (s_query.out <=> s_query.permission \subseteq s_perms)

\* ADMINISTRATOR is set, SPEAK was added and removed again, CONNECT was never
\* added: has(CONNECT) is true
C15_Witness ==
    /\ s_query.op = "has"
    /\ s_query.permission = {CONNECT}
    /\ ADMINISTRATOR \in s_perms
    /\ CONNECT \notin s_added
    /\ SPEAK \in s_added
    /\ SPEAK \notin s_perms
    /\ s_query.out

\* whether a permission of the list shares a bit with the set
SomePresent(perms, permissions) ==
    \E i \in DOMAIN permissions : permissions[i] \cap perms # {}

-----------------------------------------------------------------------------
(* hmac::generate_hmac and hmac::validate_hmac on their own.                *)

\* no tag yet
NoTag == [alg |-> "none"]

HmacIdle ==
    /\ g_pc = "start"
    /\ g_key = Unset
    /\ g_data = << >>
    /\ g_orig = NoTag
    /\ g_again = NoTag
    /\ g_tag = NoTag
    /\ g_how = Unset
    /\ g_vkey = Unset
    /\ g_vdata = << >>
    /\ g_out = FALSE

\* generate_hmac(key, data)
GenerateHmacStep(key, data) ==
    /\ g_pc = "start"
    /\ g_key' = key
    /\ g_data' = data
    /\ g_orig' = GenerateHmac(key, data)
    /\ g_tag' = GenerateHmac(key, data)
    /\ g_how' = "intact"
    /\ g_pc' = "tagged"
    /\ UNCHANGED <<g_again, g_vkey, g_vdata, g_out>>

\* generate_hmac called once more on the same key and data
GenerateHmacAgain ==
    /\ g_pc = "tagged"
    /\ g_again = NoTag
    /\ g_again' = GenerateHmac(g_key, g_data)
    /\ UNCHANGED <<g_pc, g_key, g_data, g_orig, g_tag, g_how, g_vkey, g_vdata, g_out>>

\* the tag loses bytes at its end, down to n
TruncateTag(n) ==
    /\ g_pc = "tagged"
    /\ n < g_tag.len
    /\ g_tag' = [g_tag EXCEPT !.len = n, !.last = "cut"]
    /\ g_how' = "truncated"
    /\ g_pc' = "altered"
    /\ UNCHANGED <<g_key, g_data, g_orig, g_again, g_vkey, g_vdata, g_out>>

\* the tag gains a byte at its end
ExtendTag ==
    /\ g_pc = "tagged"
    /\ g_tag' = [g_tag EXCEPT !.len = @ + 1, !.last = "added"]
    /\ g_how' = "extended"
    /\ g_pc' = "altered"
    /\ UNCHANGED <<g_key, g_data, g_orig, g_again, g_vkey, g_vdata, g_out>>

\* a bit of the last byte of the tag flips
ChangeTag ==
    /\ g_pc = "tagged"
    /\ g_tag' = [g_tag EXCEPT !.last = "changed"]
    /\ g_how' = "changed"
    /\ g_pc' = "altered"
    /\ UNCHANGED <<g_key, g_data, g_orig, g_again, g_vkey, g_vdata, g_out>>

\* validate_hmac(key, data, tag)
ValidateHmacStep(key, data) ==
    /\ g_pc \in {"tagged", "altered"}
    /\ g_vkey' = key
    /\ g_vdata' = data
    /\ g_out' = ValidateHmac(key, data, g_tag)
    /\ g_pc' = "validated"
    /\ UNCHANGED <<g_key, g_data, g_orig, g_again, g_tag, g_how>>

-----------------------------------------------------------------------------
(* hmac: the claims.                                                        *)

-----------------------------------------------------------------------------
(* KeyManager.  A SHA-256 digest is the term of the bytes that were hashed: *)
(* two digests are equal exactly when the hashed byte strings are equal.    *)
(* Successive update calls hash the concatenation of their arguments.       *)

\* the 32 bytes of a key, and the bytes of a b"..." literal, as one unit each
KeyBytes(key) == [t |-> "bytes32", of |-> key]
Literal(text) == [t |-> "literal", text |-> text]

\* Sha256::new, update.., finalize, and the copy of result[..32] into a key
Sha256Key(input) == [sha256 |-> input]

\* HmacKey::from_bytes on 32 given bytes
RawKey(name) == [raw |-> name]

\* KeyManager::generate_session_key
GenerateSessionKey(user_id, server_secret, session_nonce) ==
    Sha256Key([i \in 1..Len(server_secret) |-> Byte(server_secret[i])]
                  \o <<Byte(U16ToBeBytes(user_id)[1]), Byte(U16ToBeBytes(user_id)[2])>>
                  \o [i \in 1..Len(session_nonce) |-> Byte(session_nonce[i])])

\* KeyManager::derive_protocol_keys
DeriveProtocolKeysMut(base_key) ==
    [tcp_key |-> Sha256Key(<<KeyBytes(base_key), Literal("TCP_KEY_DERIVATION")>>),
     udp_key |-> Sha256Key(<<KeyBytes(base_key), Literal("TCP_KEY_DERIVATION")>>)]
DeriveProtocolKeys(base_key) ==
    [tcp_key |-> Sha256Key(<<KeyBytes(base_key), Literal("TCP_KEY_DERIVATION")>>),
     udp_key |-> Sha256Key(<<KeyBytes(base_key), Literal("UDP_KEY_DERIVATION")>>)]

\* the longest server secret and session nonce
MaxSecret == 2

SecretBytes == {0, 255}

Secrets == UNION {[1..n -> SecretBytes] : n \in 0..MaxSecret}

UserIds == {1, 258, U16Max}

NoKey == [none |-> TRUE]

NoKeys == [tcp_key |-> NoKey, udp_key |-> NoKey]

KeysIdle ==
    /\ k_pc = "start"
    /\ k_session = [args |-> << >>, key |-> NoKey]
    /\ k_again = NoKey
    /\ k_base = NoKey
    /\ k_keys = NoKeys

GenerateSessionKeyStep(user_id, server_secret, session_nonce) ==
    /\ k_pc = "start"
    /\ k_session' = [args |-> <<user_id, server_secret, session_nonce>>,
                     key |-> GenerateSessionKey(user_id, server_secret, session_nonce)]
    /\ k_pc' = "session"
    /\ UNCHANGED <<k_again, k_base, k_keys>>

\* generate_session_key called once more with the same arguments
GenerateSessionKeyAgain ==
    /\ k_pc = "session"
    /\ k_again = NoKey
    /\ k_again' = GenerateSessionKey(k_session.args[1], k_session.args[2],
                                     k_session.args[3])
    /\ UNCHANGED <<k_pc, k_session, k_base, k_keys>>

\* derive_protocol_keys on the session key
DeriveFromSessionKey ==
    /\ k_pc = "session"
    /\ k_base' = k_session.key
    /\ k_keys' = DeriveProtocolKeys(k_session.key)
    /\ k_pc' = "derived"
    /\ UNCHANGED <<k_session, k_again>>

\* derive_protocol_keys on a key made from 32 given bytes
DeriveFromRawKey(name) ==
    /\ k_pc = "start"
    /\ k_base' = RawKey(name)
    /\ k_keys' = DeriveProtocolKeys(RawKey(name))
    /\ k_pc' = "derived"
    /\ UNCHANGED <<k_session, k_again>>

-----------------------------------------------------------------------------
(* KeyManager: the claims.                                                  *)

-----------------------------------------------------------------------------
(* TlsConfig::new_server.  A file is the sequence of PEM sections found in  *)
(* it; text outside BEGIN/END lines is skipped by the PEM reader, so a file *)
(* of arbitrary text without sections is the empty sequence.                *)

\* what rustls_pemfile makes of one section: an Item, or an error
ItemKinds == {"X509Certificate", "Pkcs8Key", "Pkcs1Key", "Sec1Key", "Crl", "malformed"}

\* the most PEM sections in a file
MaxItems == 2

MissingFile == [exists |-> FALSE, items |-> << >>]

File(items) == [exists |-> TRUE, items |-> items]

Files == {MissingFile} \cup {File(items) : items \in UNION {[1..n -> ItemKinds] : n \in 0..MaxItems}}

\* the iterator of one kind of item, collected into Result<Vec<_>, _>: the
\* first section that cannot be read makes the whole collection an error
RECURSIVE CollectFrom(_, _, _)
CollectFrom(items, kind, i) ==
    IF i > Len(items) THEN [ok |-> TRUE, v |-> << >>]
    ELSE IF items[i] = "malformed" THEN [ok |-> FALSE, v |-> << >>]
    ELSE LET rest == CollectFrom(items, kind, i + 1)
         IN  IF ~rest.ok THEN rest
             ELSE IF items[i] = kind
                  THEN [ok |-> TRUE, v |-> <<[kind |-> kind, der |-> i]>> \o rest.v]
                  ELSE rest

Certs(file) == CollectFrom(file.items, "X509Certificate", 1)
Pkcs8PrivateKeys(file) == CollectFrom(file.items, "Pkcs8Key", 1)
RsaPrivateKeys(file) == CollectFrom(file.items, "Pkcs1Key", 1)
EcPrivateKeys(file) == CollectFrom(file.items, "Sec1Key", 1)

\* TlsConfig::load_certs
LoadCertsMut(file) ==
    IF ~file.exists THEN Err("FileSystemError", "Failed to open file")
    ELSE IF ~Certs(file).ok THEN Err("EncryptionError", "Failed to read certificates")
    ELSE Ok(Certs(file).v)
LoadCerts(file) ==
    IF ~file.exists THEN Err("FileSystemError", "Failed to open file")
    ELSE IF ~Certs(file).ok THEN Err("EncryptionError", "Failed to read certificates")
    ELSE IF Certs(file).v = << >>
         THEN Err("EncryptionError", "No certificates found in file")
         ELSE Ok(Certs(file).v)

NoKeyDer == [format |-> "none", der |-> 0]

NoResult == [ok |-> FALSE, err |-> "none", at |-> "none"]

TlsIdle ==
    /\ t_pc = "start"
    /\ t_cert = MissingFile
    /\ t_key = MissingFile
    /\ t_certs = << >>
    /\ t_tried = << >>
    /\ t_keyder = NoKeyDer
    /\ t_result = NoResult

\* new_server up to the call of load_private_key
NewServer(cert_file, key_file) ==
    /\ t_pc = "start"
    /\ t_cert' = cert_file
    /\ t_key' = key_file
    /\ LET certs == LoadCerts(cert_file)
       IN  IF certs.ok
           THEN /\ t_certs' = certs.msg
                /\ t_pc' = "try pkcs8"
                /\ UNCHANGED t_result
           ELSE /\ t_result' = certs
                /\ t_pc' = "done"
                /\ UNCHANGED t_certs
    /\ UNCHANGED <<t_tried, t_keyder>>

\* one pass of load_private_key: open the file, collect the keys of one
\* format, return the first of them if there is one
TryFormat(at, format, keys, readError, next) ==
    /\ t_pc = at
    /\ IF ~t_key.exists
       THEN /\ t_result' = Err("FileSystemError", "Failed to open key file")
            /\ t_pc' = "done"
            /\ UNCHANGED <<t_tried, t_keyder>>
       ELSE /\ t_tried' = Append(t_tried, format)
            /\ IF ~keys.ok
               THEN /\ t_result' = Err("EncryptionError", readError)
                    /\ t_pc' = "done"
                    /\ UNCHANGED t_keyder
               ELSE IF keys.v # << >>
               THEN /\ t_keyder' = [format |-> format, der |-> keys.v[1].der]
                    /\ t_pc' = "key loaded"
                    /\ UNCHANGED t_result
               ELSE IF next = "done"
               THEN /\ t_result' = Err("EncryptionError", "No valid private keys found in file")
                    /\ t_pc' = "done"
                    /\ UNCHANGED t_keyder
               ELSE /\ t_pc' = next
                    /\ UNCHANGED <<t_keyder, t_result>>
    /\ UNCHANGED <<t_cert, t_key, t_certs>>

TryPkcs8 ==
    TryFormat("try pkcs8", "Pkcs8", Pkcs8PrivateKeys(t_key),
              "Failed to read PKCS8 private key", "try rsa")

TryRsa ==
    TryFormat("try rsa", "Pkcs1", RsaPrivateKeys(t_key),
              "Failed to read RSA private key", "try ec")

TryEc ==
    TryFormat("try ec", "Sec1", EcPrivateKeys(t_key),
              "Failed to read EC private key", "done")

\* ServerConfig::builder().with_no_client_auth().with_single_cert(certs, key):
\* whether rustls accepts the pair depends on the DER inside the sections
WithSingleCert(accepted) ==
    /\ t_pc = "key loaded"
    /\ t_result' = IF accepted
                   THEN Ok([server_config |-> Some([certs |-> t_certs, key |-> t_keyder]),
                            client_config |-> None])
                   ELSE Err("EncryptionError", "Failed to create TLS server config")
    /\ t_pc' = "done"
    /\ UNCHANGED <<t_cert, t_key, t_certs, t_tried, t_keyder>>

-----------------------------------------------------------------------------
(* TlsConfig::new_server: the claims.                                       *)

\* the file exists and holds no PEM section that can be read
NoParsableItem(file) ==
    file.exists /\ \A i \in 1..Len(file.items) : file.items[i] = "malformed"

\* the file exists and load_certs finds a certificate in it
CertsLoad(file) == file.exists /\ Certs(file).ok /\ Certs(file).v # << >>

IsErr(result, kind, ats) == ~result.ok /\ result.err = kind /\ result.at \in ats

\* C19 (as stated): new_server returns a FileSystemError whenever the
\* certificate path or the key path does not exist, and an EncryptionError
\* naming missing certificates or missing private keys whenever a file exists
\* but is empty or holds no parsable PEM item.
C19_ErrorKindByFileAlone ==
    t_pc = "done" =>
        /\ (~t_cert.exists \/ ~t_key.exists) =>
               IsErr(t_result, "FileSystemError",
                     {"Failed to open file", "Failed to open key file"})
        /\ (NoParsableItem(t_cert) \/ NoParsableItem(t_key)) =>
               IsErr(t_result, "EncryptionError",
                     {"No certificates found in file", "Failed to read certificates",
                      "No valid private keys found in file",
                      "Failed to read PKCS8 private key"})

\* C19: new_server loads the certificate file first and the key file second
\* and returns the error of the first one that fails: a FileSystemError when
\* that file does not exist, an EncryptionError about certificates or private
\* keys when it exists but is empty or holds no parsable PEM item; every call
\* returns Ok or one of these two error kinds.
C19_FirstFailingFileDecides ==
    t_pc = "done" =>
        /\ ~t_cert.exists => IsErr(t_result, "FileSystemError", {"Failed to open file"})
        /\ NoParsableItem(t_cert) =>
               IsErr(t_result, "EncryptionError",
                     {"No certificates found in file", "Failed to read certificates"})
        /\ (CertsLoad(t_cert) /\ ~t_key.exists) =>
               IsErr(t_result, "FileSystemError", {"Failed to open key file"})
        /\ (CertsLoad(t_cert) /\ NoParsableItem(t_key)) =>
               IsErr(t_result, "EncryptionError",
                     {"No valid private keys found in file",
                      "Failed to read PKCS8 private key"})
        /\ t_result.ok \/ t_result.err \in {"FileSystemError", "EncryptionError"}

\* an empty certificate file and a key path that does not exist
C19_Witness ==
    /\ t_pc = "done"
    /\ t_cert = File(<< >>)
    /\ ~t_key.exists
    /\ IsErr(t_result, "EncryptionError", {"No certificates found in file"})

\* the file has a key of the format
HasKey(file, kind) == \E i \in 1..Len(file.items) : file.items[i] = kind

\* C20: private-key loading tries PKCS8, then PKCS1/RSA, then SEC1/EC, returns
\* the first key of the first format that has one, and returns an error only
\* after all three formats have been tried.
C20_AllFormatsTriedBeforeError ==
    /\ \E n \in 0..3 : t_tried = SubSeq(<<"Pkcs8", "Pkcs1", "Sec1">>, 1, n)
    /\ t_keyder # NoKeyDer =>
           /\ t_keyder.format = t_tried[Len(t_tried)]
           /\ \A i \in 1..(t_keyder.der - 1) :
                  t_key.items[i] # t_key.items[t_keyder.der]
    /\ (t_pc = "done" /\ ~t_result.ok /\ t_certs # << >> /\ t_key.exists
            /\ t_keyder = NoKeyDer) =>
           t_tried = <<"Pkcs8", "Pkcs1", "Sec1">>

-----------------------------------------------------------------------------
(* Version.  A semver is <<major, minor, patch, pre>>; pre is "" for a     *)
(* release, and a release is higher than its pre-releases.                  *)

Semvers == {<<1, 0, 0, "">>, <<1, 1, 0, "">>, <<2, 0, 0, "alpha">>, <<2, 0, 0, "">>}

\* Ord for semver::Version
SemverLess(a, b) ==
    \/ a[1] < b[1]
    \/ a[1] = b[1] /\ a[2] < b[2]
    \/ a[1] = b[1] /\ a[2] = b[2] /\ a[3] < b[3]
    \/ a[1] = b[1] /\ a[2] = b[2] /\ a[3] = b[3] /\ a[4] # "" /\ b[4] = ""

\* the longest version list
MaxVersions == 2

VersionLists == UNION {[1..n -> Semvers] : n \in 0..MaxVersions}

\* Vec::contains
Contains(list, x) == \E i \in 1..Len(list) : list[i] = x

\* the loop of negotiate: the client versions that are supported, in the
\* client's order
CompatibleVersionsMut(supported_versions, client_versions) == client_versions
CompatibleVersions(supported_versions, client_versions) ==
    SelectSeq(client_versions, LAMBDA c : Contains(supported_versions, c))

\* Iterator::max: None for no element, otherwise the last of the greatest
RECURSIVE MaxFrom(_, _, _)
MaxFrom(list, i, best) ==
    IF i > Len(list) THEN best
    ELSE MaxFrom(list, i + 1, IF SemverLess(list[i], best) THEN best ELSE list[i])

IterMaxMut(list) == IF list = << >> THEN None ELSE Some(list[1])
IterMax(list) == IF list = << >> THEN None ELSE Some(MaxFrom(list, 2, list[1]))

\* Version::new
VersionNew(supported) == [current |-> None, supported_versions |-> supported]

\* Version::negotiate: the Version afterwards and the result
Negotiate(self, client_versions) ==
    IF client_versions = << >>
    THEN [self |-> self,
          result |-> Err("NetworkError", "No client versions provided for negotiation")]
    ELSE IF self.supported_versions = << >>
    THEN [self |-> self,
          result |-> Err("NetworkError", "No supported versions available for negotiation")]
    ELSE LET best_version == IterMax(CompatibleVersions(self.supported_versions,
                                                        client_versions))
         IN  IF best_version.some
             THEN [self |-> [self EXCEPT !.current = Some(best_version.v)],
                   result |-> Ok(best_version.v)]
             ELSE [self |-> self,
                   result |-> Err("NetworkError", "No compatible versions")]

NoCall == [client_versions |-> << >>, before |-> None, result |-> NoResult, n |-> 0]

\* the most negotiate calls on one Version
MaxNegotiations == 2

VersionIdle ==
    /\ v_pc = "start"
    /\ v_new = << >>
    /\ v_self = VersionNew(<< >>)
    /\ v_call = NoCall

VersionNewStep(supported) ==
    /\ v_pc = "start"
    /\ v_new' = supported
    /\ v_self' = VersionNew(supported)
    /\ v_pc' = "ready"
    /\ UNCHANGED v_call

NegotiateStep(client_versions) ==
    /\ v_pc = "ready"
    /\ v_call.n < MaxNegotiations
    /\ LET r == Negotiate(v_self, client_versions)
       IN  /\ v_self' = r.self
           /\ v_call' = [client_versions |-> client_versions, before |-> v_self.current,
                         result |-> r.result, n |-> v_call.n + 1]
    /\ UNCHANGED <<v_pc, v_new>>

-----------------------------------------------------------------------------
(* Version: the claims.                                                     *)

\* the versions that occur in both lists
InBoth(a, b) == {x \in Semvers : Contains(a, x) /\ Contains(b, x)}

\* C21: a successful negotiate returns the highest version that is in both
\* the client's list and the supported list, whatever the order of the
\* lists, and current() is then the returned version.
C21_NegotiateReturnsHighestCommon ==
    (v_call.n > 0 /\ v_call.result.ok) =>
        /\ v_call.result.msg \in InBoth(v_call.client_versions, v_new)
        /\ \A x \in InBoth(v_call.client_versions, v_new) :
               ~SemverLess(v_call.result.msg, x)
        /\ v_self.current = Some(v_call.result.msg)

\* the highest common version is neither the client's first nor the
\* server's last, and a pre-release of it is offered too
C21_Witness ==
    /\ v_call.n > 0
    /\ v_call.result.ok
    /\ v_call.client_versions = <<<<2, 0, 0, "alpha">>, <<2, 0, 0, "">>>>
    /\ v_new = <<<<2, 0, 0, "">>, <<2, 0, 0, "alpha">>>>
    /\ v_call.result.msg = <<2, 0, 0, "">>

\* C26: negotiate fails with a NetworkError when the client list is empty,
\* the supported list is empty or the lists share no version; a failing call
\* leaves current() as it was, and no call changes supported_versions.
C26_FailedNegotiateChangesNothing ==
    /\ v_self.supported_versions = v_new
    /\ v_call.n > 0 =>
           /\ ~v_call.result.ok <=> InBoth(v_call.client_versions, v_new) = {}
           /\ ~v_call.result.ok =>
                  /\ v_call.result.err = "NetworkError"
                  /\ v_self.current = v_call.before

\* a negotiation over lists without a common version fails after an earlier
\* one succeeded
C26_Witness ==
    /\ v_call.n = 2
    /\ ~v_call.result.ok
    /\ v_call.client_versions # << >>
    /\ v_new # << >>
    /\ v_call.before.some
    /\ v_self.current = v_call.before

-----------------------------------------------------------------------------
(* Server.  A client connects to the bound listener and waits in its        *)
(* backlog; run accepts in a loop and hands each stream to a spawned task,  *)
(* accept_connection accepts one stream and handles it itself.              *)

\* the most clients that connect
MaxClients == 2

Clients == 1..MaxClients

\* how the peer and the network treat one connection
Fates == {"good", "handshake fails", "handshake stalls", "write fails", "write stalls"}

NoConn == [st |-> "none", by |-> "none"]

NoReturn == [op |-> "none", started |-> FALSE, result |-> NoResult, client |-> 0]

ServerIdle ==
    /\ sv_pc = "none"
    /\ sv_tls = FALSE
    /\ sv_start = "never"
    /\ sv_listener = FALSE
    /\ sv_run = "idle"
    /\ sv_ac = "idle"
    /\ sv_conn = [c \in Clients |-> NoConn]
    /\ sv_fate = [c \in Clients |-> "good"]
    /\ sv_sent = [c \in Clients |-> 0]
    /\ sv_last = NoReturn

\* self.listener.as_ref().ok_or(NetworkError("Server not started"))
ListenerOrErrMut(listener) == Ok(listener)
ListenerOrErr(listener) ==
    IF listener THEN Ok(listener) ELSE Err("NetworkError", "Server not started")

\* tokio::spawn: the loop of run goes back to accept at once, whatever the
\* tasks it spawned are doing
LoopIsFreeMut(conn) ==
    \A c \in Clients : conn[c].by = "run" => conn[c].st \notin {"handshaking", "writing"}
LoopIsFree(conn) == TRUE

\* Server::new with a configuration that loads
ServerNew(tls) ==
    /\ sv_pc = "none"
    /\ sv_pc' = "new"
    /\ sv_tls' = tls
    /\ UNCHANGED <<sv_start, sv_listener, sv_run, sv_ac, sv_conn, sv_fate, sv_sent, sv_last>>

\* Server::start
Start(bound) ==
    /\ sv_pc = "new"
    /\ ~sv_listener
    /\ sv_listener' = bound
    /\ sv_start' = IF bound THEN "ok" ELSE "failed"
    /\ UNCHANGED <<sv_pc, sv_tls, sv_run, sv_ac, sv_conn, sv_fate, sv_sent, sv_last>>

\* a client's TCP connect reaches the listener's backlog
ClientConnect(c, fate) ==
    /\ sv_listener
    /\ sv_conn[c] = NoConn
    /\ sv_conn' = [sv_conn EXCEPT ![c] = [st |-> "queued", by |-> "none"]]
    /\ sv_fate' = [sv_fate EXCEPT ![c] = fate]
    /\ UNCHANGED <<sv_pc, sv_tls, sv_start, sv_listener, sv_run, sv_ac, sv_sent, sv_last>>

\* accept_connection up to listener.accept().await
AcceptConnection ==
    /\ sv_pc = "new"
    /\ sv_ac = "idle"
    /\ IF ListenerOrErr(sv_listener).ok
       THEN /\ sv_ac' = "accepting"
            /\ UNCHANGED sv_last
       ELSE /\ sv_last' = [op |-> "accept_connection", started |-> sv_start = "ok",
                           result |-> ListenerOrErr(sv_listener), client |-> 0]
            /\ UNCHANGED sv_ac
    /\ UNCHANGED <<sv_pc, sv_tls, sv_start, sv_listener, sv_run, sv_conn, sv_fate, sv_sent>>

\* accept_connection: listener.accept().await returns a stream
AcceptConnectionAccepts(c) ==
    /\ sv_ac = "accepting"
    /\ sv_conn[c].st = "queued"
    /\ IF sv_tls
       THEN /\ sv_conn' = [sv_conn EXCEPT ![c] = [st |-> "handshaking",
                                                  by |-> "accept_connection"]]
            /\ sv_ac' = "handling"
            /\ UNCHANGED sv_last
       ELSE /\ sv_conn' = [sv_conn EXCEPT ![c] = [st |-> "plain", by |-> "accept_connection"]]
            /\ sv_ac' = "idle"
            /\ sv_last' = [op |-> "accept_connection", started |-> sv_start = "ok",
                           result |-> Ok("unit"), client |-> c]
    /\ UNCHANGED <<sv_pc, sv_tls, sv_start, sv_listener, sv_run, sv_fate, sv_sent>>

\* accept_connection: listener.accept().await returns an error
AcceptConnectionAcceptFails ==
    /\ sv_ac = "accepting"
    /\ sv_ac' = "idle"
    /\ sv_last' = [op |-> "accept_connection", started |-> sv_start = "ok",
                   result |-> Err(FromIoError, "accept"), client |-> 0]
    /\ UNCHANGED <<sv_pc, sv_tls, sv_start, sv_listener, sv_run, sv_conn, sv_fate, sv_sent>>

\* run up to the loop
Run ==
    /\ sv_pc = "new"
    /\ sv_run = "idle"
    /\ IF ListenerOrErr(sv_listener).ok
       THEN /\ sv_run' = "serving"
            /\ UNCHANGED sv_last
       ELSE /\ sv_last' = [op |-> "run", started |-> sv_start = "ok",
                           result |-> ListenerOrErr(sv_listener), client |-> 0]
            /\ UNCHANGED sv_run
    /\ UNCHANGED <<sv_pc, sv_tls, sv_start, sv_listener, sv_ac, sv_conn, sv_fate, sv_sent>>

\* run: listener.accept().await returns a stream and a task is spawned for it
RunAccepts(c) ==
    /\ sv_run = "serving"
    /\ LoopIsFree(sv_conn)
    /\ sv_conn[c].st = "queued"
    /\ sv_conn' = [sv_conn EXCEPT ![c] = [st |-> IF sv_tls THEN "handshaking" ELSE "plain",
                                          by |-> "run"]]
    /\ UNCHANGED <<sv_pc, sv_tls, sv_start, sv_listener, sv_run, sv_ac, sv_fate, sv_sent, sv_last>>

\* run: listener.accept().await returns an error, which ends the loop
RunAcceptFails ==
    /\ sv_run = "serving"
    /\ LoopIsFree(sv_conn)
    /\ sv_run' = "returned"
    /\ sv_last' = [op |-> "run", started |-> sv_start = "ok",
                   result |-> Err(FromIoError, "accept"), client |-> 0]
    /\ UNCHANGED <<sv_pc, sv_tls, sv_start, sv_listener, sv_ac, sv_conn, sv_fate, sv_sent>>

\* what the handler of a connection does when a step on it ends with an error
\* or with the message written: accept_connection returns, a task just ends
Returns(c, result) ==
    IF sv_conn[c].by = "accept_connection"
    THEN /\ sv_ac' = "idle"
         /\ sv_last' = [op |-> "accept_connection", started |-> sv_start = "ok",
                        result |-> result, client |-> c]
    ELSE UNCHANGED <<sv_ac, sv_last>>

\* acceptor.accept(stream).await completes
Handshake(c) ==
    /\ sv_conn[c].st = "handshaking"
    /\ sv_fate[c] # "handshake stalls"
    /\ IF sv_fate[c] = "handshake fails"
       THEN /\ sv_conn' = [sv_conn EXCEPT ![c].st = "handshake failed"]
            /\ Returns(c, Err(FromIoError, "TLS handshake"))
       ELSE /\ sv_conn' = [sv_conn EXCEPT ![c].st = "writing"]
            /\ UNCHANGED <<sv_ac, sv_last>>
    /\ UNCHANGED <<sv_pc, sv_tls, sv_start, sv_listener, sv_run, sv_fate, sv_sent>>

\* conn.write_message(&msg).await completes
WriteServerInfo(c) ==
    /\ sv_conn[c].st = "writing"
    /\ sv_fate[c] # "write stalls"
    /\ IF sv_fate[c] = "write fails"
       THEN /\ sv_conn' = [sv_conn EXCEPT ![c].st = "write failed"]
            /\ Returns(c, Err(FromIoError, "write_message"))
            /\ UNCHANGED sv_sent
       ELSE /\ sv_conn' = [sv_conn EXCEPT ![c].st = "served"]
            /\ sv_sent' = [sv_sent EXCEPT ![c] = @ + 1]
            /\ Returns(c, Ok("unit"))
    /\ UNCHANGED <<sv_pc, sv_tls, sv_start, sv_listener, sv_run, sv_fate>>

-----------------------------------------------------------------------------
(* Server: the claims.                                                      *)

\* C22: while run serves a TLS server, a client waiting in the backlog is
\* accepted whatever the other connections do, and a client whose handshake
\* completed receives ServerInfo unless its own write fails or stalls.
C22_EveryClientServed ==
    \A c \in Clients :
        /\ (sv_conn[c].st = "queued" /\ sv_run = "serving")
               ~> (sv_conn[c].st # "queued" \/ sv_run # "serving")
        /\ (sv_conn[c] = [st |-> "writing", by |-> "run"] /\ sv_fate[c] = "good")
               ~> (sv_sent[c] = 1)

\* run served one client while the handshake of another one is stalled
C22_Witness ==
    \E c, d \in Clients :
        /\ sv_tls
        /\ sv_conn[c] = [st |-> "handshaking", by |-> "run"]
        /\ sv_fate[c] = "handshake stalls"
        /\ sv_conn[d] = [st |-> "served", by |-> "run"]
        /\ sv_sent[d] = 1

\* C30: accept_connection and run return NetworkError("Server not started")
\* and accept nothing while start has not succeeded; after that, an
\* accept_connection of a TLS server that returns Ok has written exactly one
\* ServerInfo to the accepted client, and one whose handshake or write failed
\* returns an error and has written none.
C30_NotStartedOrOneServerInfo ==
    /\ sv_start # "ok" =>
           /\ \A c \in Clients : sv_conn[c] = NoConn
           /\ sv_run = "idle" /\ sv_ac = "idle"
           /\ sv_last.op # "none" =>
                  sv_last.result = Err("NetworkError", "Server not started")
    /\ \A c \in Clients : sv_sent[c] <= 1
    /\ (sv_tls /\ sv_last.op = "accept_connection" /\ sv_last.started) =>
           /\ sv_last.result.ok =>
                  /\ sv_last.client \in Clients
                  /\ sv_conn[sv_last.client].st = "served"
                  /\ sv_sent[sv_last.client] = 1
           /\ (sv_last.client \in Clients
                   /\ sv_conn[sv_last.client].st \in {"handshake failed", "write failed"}) =>
                  /\ ~sv_last.result.ok
                  /\ sv_sent[sv_last.client] = 0

\* after start, accept_connection of a TLS server served a client
C30_Witness ==
    /\ sv_tls
    /\ sv_start = "ok"
    /\ sv_last.op = "accept_connection"
    /\ sv_last.result.ok
    /\ sv_last.client \in Clients
    /\ sv_sent[sv_last.client] = 1

-----------------------------------------------------------------------------
(* Channel::validate.  A String is the number of its characters and the     *)
(* number of bytes of its UTF-8 encoding (1 to 4 bytes for a character).    *)

Text(chars, bytes) == [chars |-> chars, bytes |-> bytes]

\* String::len: the length in bytes
StringLen(text) == text.bytes

\* String::is_empty
IsEmpty(text) == StringLen(text) = 0

\* texts of ASCII characters and of two-byte characters
Texts(counts) == {Text(n, n * w) : n \in counts, w \in {1, 2}}

Names == Texts({0, 1, 51, 100, 101})

Descriptions == {None} \cup {Some(t) : t \in Texts({0, 251, 500, 501})}

ChannelIds == {1, 2}

Channels ==
    [id : ChannelIds, name : Names, description : Descriptions,
     parent_id : {None} \cup {Some(i) : i \in ChannelIds}]

\* Channel::validate
Validate(self) ==
    IF IsEmpty(self.name)
    THEN Err("ValidationError", "Channel name cannot be empty")
    ELSE IF StringLen(self.name) > 100
    THEN Err("ValidationError", "Channel name cannot exceed 100 characters")
    ELSE IF self.description.some /\ StringLen(self.description.v) > 500
    THEN Err("ValidationError", "Channel description cannot exceed 500 characters")
    ELSE IF self.parent_id.some /\ self.parent_id.v = self.id
    THEN Err("ValidationError", "Channel cannot be its own parent")
    ELSE Ok("unit")

ChannelIdle ==
    /\ n_pc = "start"
    /\ n_channel = [id |-> 1, name |-> Text(0, 0), description |-> None, parent_id |-> None]
    /\ n_result = NoResult

ValidateStep(channel) ==
    /\ n_pc = "start"
    /\ n_channel' = channel
    /\ n_result' = Validate(channel)
    /\ n_pc' = "validated"

\* the Channel is given up
DropChannel ==
    /\ n_pc = "validated"
    /\ n_pc' = "start"
    /\ n_result' = NoResult
    /\ UNCHANGED n_channel

-----------------------------------------------------------------------------
(* Channel::validate: the claims.                                           *)

\* C23: validate returns a validation error when the name is empty or has
\* more than 100 characters, when a description is present and has more than
\* 500 characters, or when parent_id is the channel's own id, and Ok in every
\* other case.
C23_ValidateByCharacters ==
    n_pc = "validated" =>
        /\ ~n_result.ok =>
               n_result.err = "ValidationError"
        /\ ~n_result.ok <=>
               \/ n_channel.name.chars = 0
               \/ n_channel.name.chars > 100
               \/ n_channel.description.some /\ n_channel.description.v.chars > 500
               \/ n_channel.parent_id.some /\ n_channel.parent_id.v = n_channel.id

-----------------------------------------------------------------------------
(* Role: discord_role_ids.                                                  *)

DiscordRoleIds == {"discord a", "discord b", "discord c"}

\* the most add_discord_role and remove_discord_role calls on one Role
MaxRoleCalls == 4

\* Role::new
RoleNew(id, name) ==
    [id |-> id, name |-> name, permissions |-> {}, discord_role_ids |-> << >>,
     priority |-> 0]

\* Role::add_discord_role
AddDiscordRoleMut(self, role_id) ==
    [self EXCEPT !.discord_role_ids = Append(@, role_id)]
AddDiscordRole(self, role_id) ==
    IF ~Contains(self.discord_role_ids, role_id)
    THEN [self EXCEPT !.discord_role_ids = Append(@, role_id)]
    ELSE self

\* Role::remove_discord_role
RemoveDiscordRole(self, role_id) ==
    [self EXCEPT !.discord_role_ids = SelectSeq(@, LAMBDA id : id # role_id)]

RoleIdle ==
    /\ d_role = RoleNew("role", "Role")
    /\ d_last = [op |-> "new", role_id |-> "none", before |-> << >>, n |-> 0]

AddDiscordRoleStep(role_id) ==
    /\ d_last.n < MaxRoleCalls
    /\ d_role' = AddDiscordRole(d_role, role_id)
    /\ d_last' = [op |-> "add", role_id |-> role_id, before |-> d_role.discord_role_ids,
                  n |-> d_last.n + 1]

RemoveDiscordRoleStep(role_id) ==
    /\ d_last.n < MaxRoleCalls
    /\ d_role' = RemoveDiscordRole(d_role, role_id)
    /\ d_last' = [op |-> "remove", role_id |-> role_id, before |-> d_role.discord_role_ids,
                  n |-> d_last.n + 1]

-----------------------------------------------------------------------------
(* Role: the claims.                                                        *)

\* how often x occurs in the list
Occurrences(list, x) == Cardinality({i \in 1..Len(list) : list[i] = x})

\* C24: after any add_discord_role and remove_discord_role calls on a new
\* Role no id is in discord_role_ids twice; adding an id that is present
\* changes nothing, and remove_discord_role(x) leaves no x and keeps every
\* other id.
C24_NoDuplicateDiscordRoles ==
    LET ids == d_role.discord_role_ids
    IN  /\ \A x \in DiscordRoleIds : Occurrences(ids, x) <= 1
        /\ (d_last.op = "add" /\ Contains(d_last.before, d_last.role_id)) =>
               ids = d_last.before
        /\ (d_last.op = "add" /\ ~Contains(d_last.before, d_last.role_id)) =>
               ids = Append(d_last.before, d_last.role_id)
        /\ d_last.op = "remove" =>
               /\ ~Contains(ids, d_last.role_id)
               /\ \A x \in DiscordRoleIds \ {d_last.role_id} :
                      Occurrences(ids, x) = Occurrences(d_last.before, x)

\* an id that was already in a list of two was added again
C24_Witness ==
    /\ d_last.op = "add"
    /\ Len(d_last.before) = 2
    /\ Contains(d_last.before, d_last.role_id)
    /\ d_role.discord_role_ids = d_last.before

-----------------------------------------------------------------------------
(* Specifications.                                                          *)

\* a step of one part leaves the other parts where they are
ConnOnly ==
    UNCHANGED <<packetVars,
                framedVars,
                permVars,
                packetHmacVars,
                permSetVars,
                hmacVars,
                keyVars,
                tlsVars,
                versionVars,
                serverVars,
                channelVars,
                roleVars>>
PacketOnly ==
    UNCHANGED <<connVars,
                framedVars,
                permVars,
                packetHmacVars,
                permSetVars,
                hmacVars,
                keyVars,
                tlsVars,
                versionVars,
                serverVars,
                channelVars,
                roleVars>>
FramedOnly ==
    UNCHANGED <<connVars,
                packetVars,
                permVars,
                packetHmacVars,
                permSetVars,
                hmacVars,
                keyVars,
                tlsVars,
                versionVars,
                serverVars,
                channelVars,
                roleVars>>
PermOnly ==
    UNCHANGED <<connVars,
                packetVars,
                framedVars,
                packetHmacVars,
                permSetVars,
                hmacVars,
                keyVars,
                tlsVars,
                versionVars,
                serverVars,
                channelVars,
                roleVars>>
PacketHmacOnly ==
    UNCHANGED <<connVars,
                packetVars,
                framedVars,
                permVars,
                permSetVars,
                hmacVars,
                keyVars,
                tlsVars,
                versionVars,
                serverVars,
                channelVars,
                roleVars>>
PermSetOnly ==
    UNCHANGED <<connVars,
                packetVars,
                framedVars,
                permVars,
                packetHmacVars,
                hmacVars,
                keyVars,
                tlsVars,
                versionVars,
                serverVars,
                channelVars,
                roleVars>>
HmacOnly ==
    UNCHANGED <<connVars,
                packetVars,
                framedVars,
                permVars,
                packetHmacVars,
                permSetVars,
                keyVars,
                tlsVars,
                versionVars,
                serverVars,
                channelVars,
                roleVars>>
KeysOnly ==
    UNCHANGED <<connVars,
                packetVars,
                framedVars,
                permVars,
                packetHmacVars,
                permSetVars,
                hmacVars,
                tlsVars,
                versionVars,
                serverVars,
                channelVars,
                roleVars>>
TlsOnly ==
    UNCHANGED <<connVars,
                packetVars,
                framedVars,
                permVars,
                packetHmacVars,
                permSetVars,
                hmacVars,
                keyVars,
                versionVars,
                serverVars,
                channelVars,
                roleVars>>
VersionOnly ==
    UNCHANGED <<connVars,
                packetVars,
                framedVars,
                permVars,
                packetHmacVars,
                permSetVars,
                hmacVars,
                keyVars,
                tlsVars,
                serverVars,
                channelVars,
                roleVars>>
ServerOnly ==
    UNCHANGED <<connVars,
                packetVars,
                framedVars,
                permVars,
                packetHmacVars,
                permSetVars,
                hmacVars,
                keyVars,
                tlsVars,
                versionVars,
                channelVars,
                roleVars>>
ChannelOnly ==
    UNCHANGED <<connVars,
                packetVars,
                framedVars,
                permVars,
                packetHmacVars,
                permSetVars,
                hmacVars,
                keyVars,
                tlsVars,
                versionVars,
                serverVars,
                roleVars>>
RoleOnly ==
    UNCHANGED <<connVars,
                packetVars,
                framedVars,
                permVars,
                packetHmacVars,
                permSetVars,
                hmacVars,
                keyVars,
                tlsVars,
                versionVars,
                serverVars,
                channelVars>>

AllIdle ==
    /\ ConnIdle
    /\ PacketIdle
    /\ FramedIdle
    /\ PermIdle
    /\ PacketHmacIdle
    /\ PermSetNew
    /\ HmacIdle
    /\ KeysIdle
    /\ TlsIdle
    /\ VersionIdle
    /\ ServerIdle
    /\ ChannelIdle
    /\ RoleIdle

NextConn ==
    \/ \E i \in DOMAIN MessageList : WriteMessage(MessageList[i]) /\ ConnOnly
    \/ \E k \in {1, Len(w_buf)} : WriteSome(k) /\ ConnOnly
    \/ CancelWrite /\ ConnOnly
    \/ \E i \in DOMAIN RawFrameList : PeerWriteRaw(i) /\ ConnOnly
    \/ CloseStream /\ ConnOnly
    \/ ReadLength /\ ConnOnly
    \/ ReadPayload /\ ConnOnly

InitConn == AllIdle

SpecConn == InitConn /\ [][NextConn]_vars

NextPacket ==
    \/ \E h \in Headers, p \in Payloads : ToBytesStep(h, p) /\ PacketOnly
    \/ \E n \in 0..Len(a_bytes) : TruncateDatagram(n) /\ PacketOnly
    \/ \E b \in PayloadBytes : ExtendDatagram(b) /\ PacketOnly
    \/ \E i \in DOMAIN a_bytes : ChangeByte(i) /\ PacketOnly
    \/ FromBytesStep /\ PacketOnly

InitPacket == AllIdle

SpecPacket == InitPacket /\ [][NextPacket]_vars

NextFramed ==
    \/ \E i \in DOMAIN MessageList, key \in Keys :
           FramedNewStep(MessageList[i], key) /\ FramedOnly
    \/ /\ f_pc = "built"
       /\ \E i \in DOMAIN f_env.payload : TamperPayload(i)
       /\ FramedOnly
    \/ \E key \in Keys : TamperHmac(key) /\ FramedOnly
    \/ \E key \in Keys : Reseal(key) /\ FramedOnly
    \/ \E key \in Keys : ValidateAndDecodeStep(key) /\ FramedOnly

InitFramed == AllIdle

SpecFramed == InitFramed /\ [][NextFramed]_vars

NextPerm ==
    \/ /\ p_pc = "start"
       /\ \E store \in Stores, user_roles \in UserRoleLists :
              ComputeUserPermissions(store, user_roles)
       /\ PermOnly
    \/ RecurseIntoParent /\ PermOnly
    \/ ReturnPermissions /\ PermOnly

InitPerm == AllIdle

SpecPerm == InitPerm /\ [][NextPerm]_vars

NextPacketHmac ==
    \/ /\ h_pc = "start"
       /\ \E h \in Headers, key \in Keys, audio_data \in Payloads :
              SealHeaderStep(h, key, audio_data)
       /\ PacketHmacOnly
    \/ \E h \in Headers : ReceiveHeader(h) /\ PacketHmacOnly
    \/ /\ h_pc = "held"
       /\ \E key \in Keys, audio_data \in Payloads :
              PacketValidateHmacStep(key, audio_data)
       /\ PacketHmacOnly

InitPacketHmac == AllIdle

SpecPacketHmac == InitPacketHmac /\ [][NextPacketHmac]_vars

NextPermSet ==
    \/ \E permission \in Masks : FromBits(permission) /\ PermSetOnly
    \/ \E permission \in Masks : Add(permission) /\ PermSetOnly
    \/ \E permission \in Masks : Remove(permission) /\ PermSetOnly
    \/ \E permission \in Masks : HasStep(permission) /\ PermSetOnly
    \/ \E permissions \in MaskLists : HasAllStep(permissions) /\ PermSetOnly
    \/ \E permissions \in MaskLists : HasAnyStep(permissions) /\ PermSetOnly

InitPermSet == AllIdle

SpecPermSet == InitPermSet /\ [][NextPermSet]_vars

NextHmac ==
    \/ /\ g_pc = "start"
       /\ \E key \in Keys, data \in Payloads : GenerateHmacStep(key, data)
       /\ HmacOnly
    \/ GenerateHmacAgain /\ HmacOnly
    \/ \E n \in {0, 1, 31} : TruncateTag(n) /\ HmacOnly
    \/ ExtendTag /\ HmacOnly
    \/ ChangeTag /\ HmacOnly
    \/ /\ g_pc \in {"tagged", "altered"}
       /\ \E key \in Keys, data \in Payloads : ValidateHmacStep(key, data)
       /\ HmacOnly

InitHmac == AllIdle

SpecHmac == InitHmac /\ [][NextHmac]_vars

NextKeys ==
    \/ /\ k_pc = "start"
       /\ \E user_id \in UserIds, server_secret \in Secrets, session_nonce \in Secrets :
              GenerateSessionKeyStep(user_id, server_secret, session_nonce)
       /\ KeysOnly
    \/ GenerateSessionKeyAgain /\ KeysOnly
    \/ DeriveFromSessionKey /\ KeysOnly
    \/ \E name \in Keys : DeriveFromRawKey(name) /\ KeysOnly

InitKeys == AllIdle

SpecKeys == InitKeys /\ [][NextKeys]_vars

NextTls ==
    \/ /\ t_pc = "start"
       /\ \E cert_file \in Files, key_file \in Files : NewServer(cert_file, key_file)
       /\ TlsOnly
    \/ TryPkcs8 /\ TlsOnly
    \/ TryRsa /\ TlsOnly
    \/ TryEc /\ TlsOnly
    \/ \E accepted \in BOOLEAN : WithSingleCert(accepted) /\ TlsOnly

InitTls == AllIdle

SpecTls == InitTls /\ [][NextTls]_vars

NextVersion ==
    \/ \E supported \in VersionLists : VersionNewStep(supported) /\ VersionOnly
    \/ \E client_versions \in VersionLists : NegotiateStep(client_versions) /\ VersionOnly

InitVersion == AllIdle

SpecVersion == InitVersion /\ [][NextVersion]_vars

NextServer ==
    \/ \E tls \in BOOLEAN : ServerNew(tls) /\ ServerOnly
    \/ \E bound \in BOOLEAN : Start(bound) /\ ServerOnly
    \/ \E c \in Clients, fate \in Fates : ClientConnect(c, fate) /\ ServerOnly
    \/ AcceptConnection /\ ServerOnly
    \/ \E c \in Clients : AcceptConnectionAccepts(c) /\ ServerOnly
    \/ AcceptConnectionAcceptFails /\ ServerOnly
    \/ Run /\ ServerOnly
    \/ \E c \in Clients : RunAccepts(c) /\ ServerOnly
    \/ RunAcceptFails /\ ServerOnly
    \/ \E c \in Clients : Handshake(c) /\ ServerOnly
    \/ \E c \in Clients : WriteServerInfo(c) /\ ServerOnly

InitServer == AllIdle

SpecServer == InitServer /\ [][NextServer]_vars

\* a server that is driven by run alone
NextServerRun ==
    \/ \E tls \in BOOLEAN : ServerNew(tls) /\ ServerOnly
    \/ \E bound \in BOOLEAN : Start(bound) /\ ServerOnly
    \/ \E c \in Clients, fate \in Fates : ClientConnect(c, fate) /\ ServerOnly
    \/ Run /\ ServerOnly
    \/ \E c \in Clients : RunAccepts(c) /\ ServerOnly
    \/ RunAcceptFails /\ ServerOnly
    \/ \E c \in Clients : Handshake(c) /\ ServerOnly
    \/ \E c \in Clients : WriteServerInfo(c) /\ ServerOnly

\* tokio runs every task that is ready: the accept loop of run and each
\* spawned task take their next step when it stays possible
SpecServerLive ==
    /\ InitServer
    /\ [][NextServerRun]_vars
    /\ WF_vars(\E c \in Clients : RunAccepts(c) /\ ServerOnly)
    /\ \A c \in Clients : WF_vars(Handshake(c) /\ ServerOnly)
    /\ \A c \in Clients : WF_vars(WriteServerInfo(c) /\ ServerOnly)

NextChannel ==
    \/ \E channel \in Channels : ValidateStep(channel) /\ ChannelOnly
    \/ DropChannel /\ ChannelOnly

InitChannel == AllIdle

SpecChannel == InitChannel /\ [][NextChannel]_vars

NextRole ==
    \/ \E role_id \in DiscordRoleIds : AddDiscordRoleStep(role_id) /\ RoleOnly
    \/ \E role_id \in DiscordRoleIds : RemoveDiscordRoleStep(role_id) /\ RoleOnly

InitRole == AllIdle

SpecRole == InitRole /\ [][NextRole]_vars

====
